---- MODULE Spec2Model ----
(***************************************************************************)
(* Scrape orchestration of the worker service: RateLimiter, JobDeduper,    *)
(* ScrapeScheduleEntry.is_due, ScrapeService.run_adapter and               *)
(* ScheduleDispatcher, modelled from apps/worker/app/scraping.             *)
(* Time is in seconds throughout; one clock `now` stands for               *)
(* time.monotonic(), datetime.now(timezone.utc) and the Redis server clock.*)
(***************************************************************************)
EXTENDS Integers, Sequences, FiniteSets, TLC

None == "None"
\* asyncio.Lock() unlocked: no task holds it.
Unlocked == 0

(***************************************************************************)
(* Bounds of the model.                                                    *)
(***************************************************************************)
NumTasks == 3
MaxCalls == 2
LimiterTick == 20
LimiterHorizon == 100
NumRuns == 2
MaxChecks == 3
RunTick == 50000
RunHorizon == 100000
MaxEntries == 2
default_scrape_interval_minutes == 2
DispatchTick == 60
DispatchHorizon == 120

Tasks == 1..NumTasks
Keys == {"default", "x"}
Runs == 1..NumRuns
\* run_adapter builds one RateLimiter per run: limiter r is the one of run r.
Limiters == Runs
Dispatchers == {"beat-1", "beat-2"}

VARIABLES
    now,         \* the clock, in seconds
    max_calls,   \* RateLimiter.max_calls
    events,      \* RateLimiter._events of each limiter: key -> FIFO of grant timestamps
    lock,        \* RateLimiter._lock of each limiter: Unlocked or the task holding it
    tpc,         \* position of each task in acquire()
    tlim,        \* the limiter each task calls acquire on
    tkey,        \* the key each task acquires
    twake,       \* when a sleeping task's asyncio.sleep ends
    tsleep,      \* acquire: max(sleep_for, 0), what the task's asyncio.sleep was given
    toldest,     \* the oldest timestamp a task saw when it was first blocked: <<>> or <<t>> (history)
    tretried,    \* whether the task has slept and called acquire again (history)
    grants,      \* limiter, key -> times at which acquire(key) returned (history)
    redis,       \* the shared Redis: key -> [value, expires]
    rpc,         \* position of each run in run_adapter()
    rslug,       \* run_adapter: adapter_slug
    rbrowser,    \* run_adapter: context.browser_name
    rrunid,      \* run_adapter: run_id
    processed,   \* run_adapter: processed
    dropped,     \* run_adapter: dropped
    collected,   \* run_adapter: collected
    session,     \* the run's Playwright session: "none", "open", "closed"
    rresult,     \* what run_adapter returned: <<>> or <<ScrapeRunResult>>
    rerror,      \* the exception run_adapter raised, or None
    checks,      \* every is_duplicate call, in order (history)
    ingestLog,   \* every ingest_jobs call, in order (history)
    navs,        \* every page navigation an adapter issued, in order (history)
    dedupeLog,   \* every call of a JobDeduper under test, in order (history)
    dueArgs,     \* is_due under test: <<>> or <<[entry, last_dispatch_at, now]>>
    dueResult,   \* is_due under test: <<>> or <<what it returned>>
    dpc,         \* position of each dispatcher in dispatch()
    fetched,     \* what fetch_schedule returned in this cycle (history)
    schedules,   \* dispatch: schedules
    cycleNow,    \* dispatch: now
    didx,        \* dispatch: index of the entry the loop is at
    details,     \* dispatch: details
    ndispatched, \* dispatch: dispatched
    drunid,      \* _handle_entry: run_id of the entry being dispatched
    dsent,       \* send_task calls of this cycle (history)
    dreads,      \* what redis.get returned for each entry of this cycle (history)
    dwrites,     \* redis.set calls of this cycle (history)
    summary,     \* what dispatch returned: <<>> or <<ScrapeDispatchSummary>>
    dhistory,    \* every task sent by the cycles so far, in order (history)
    crashed      \* the cycle that crashed before this one: <<>> or <<what it did>> (history)

limiterVars == <<max_calls, events, lock, tpc, tlim, tkey, twake, tsleep, toldest,
                 tretried, grants>>
runVars == <<rpc, rslug, rbrowser, rrunid, processed, dropped,
             collected, session, rresult, rerror, checks, ingestLog, navs, dedupeLog>>
dueVars == <<dueArgs, dueResult>>
dispatchVars == <<dpc, fetched, schedules, cycleNow, didx, details, ndispatched,
                  drunid, dsent, dreads, dwrites, summary, dhistory, crashed>>
vars == <<now, limiterVars, redis, runVars, dueVars, dispatchVars>>

(***************************************************************************)
(* RateLimiter (limiters.py)                                               *)
(***************************************************************************)
period == 60

Max(a, b) == IF a >= b THEN a ELSE b

\* while events and now - events[0] > self.period: events.popleft()
RECURSIVE Evict(_, _)
Evict(ev, t) ==
    IF ev # <<>> /\ t - Head(ev) > period THEN Evict(Tail(ev), t) ELSE ev

\* A bug HasCapacity could have: `<=` for `<`, one grant too many per window.
HasCapacityOffByOne(ev) == Len(ev) <= max_calls

\* if len(events) < self.max_calls
HasCapacity(ev) == Len(ev) < max_calls

\* sleep_for = self.period - (now - events[0])
SleepFor(ev, t) == period - (t - Head(ev))

LimiterInit ==
    /\ events = [l \in Limiters |-> [k \in Keys |-> <<>>]]
    /\ lock = [l \in Limiters |-> Unlocked]
    /\ tpc = [t \in Tasks |-> "idle"]
    /\ tlim = [t \in Tasks |-> 1]
    /\ tkey = [t \in Tasks |-> None]
    /\ twake = [t \in Tasks |-> 0]
    /\ tsleep = [t \in Tasks |-> 0]
    /\ toldest = [t \in Tasks |-> <<>>]
    /\ tretried = [t \in Tasks |-> FALSE]
    /\ grants = [l \in Limiters |-> [k \in Keys |-> <<>>]]

\* A task calls acquire(key) on limiter l.
AcquireCall(t, l, k) ==
    /\ tpc[t] = "idle"
    /\ tpc' = [tpc EXCEPT ![t] = "enter"]
    /\ tlim' = [tlim EXCEPT ![t] = l]
    /\ tkey' = [tkey EXCEPT ![t] = k]
    /\ UNCHANGED <<now, max_calls, events, lock, twake, tsleep, toldest, tretried, grants>>
    /\ UNCHANGED <<redis, runVars, dueVars, dispatchVars>>

\* A bug: only a negative max_calls disables the limiter.
LimiterDisabledOnlyNegative == max_calls < 0

\* if self.max_calls <= 0
LimiterDisabled == max_calls <= 0

\* if self.max_calls <= 0: return ; otherwise take self._lock (waits while held).
AcquireEnter(t) ==
    /\ tpc[t] = "enter"
    /\ IF LimiterDisabled
       THEN /\ tpc' = [tpc EXCEPT ![t] = "done"]
            /\ grants' = [grants EXCEPT ![tlim[t]][tkey[t]] = Append(@, now)]
            /\ UNCHANGED lock
       ELSE /\ lock[tlim[t]] = Unlocked
            /\ lock' = [lock EXCEPT ![tlim[t]] = t]
            /\ tpc' = [tpc EXCEPT ![t] = "locked"]
            /\ UNCHANGED grants
    /\ UNCHANGED <<now, max_calls, events, tlim, tkey, twake, tsleep, toldest, tretried>>
    /\ UNCHANGED <<redis, runVars, dueVars, dispatchVars>>

\* A bug: asyncio.sleep is awaited inside `async with self._lock`, so a blocked
\* caller keeps the lock while it waits.
LockAfterSleepingInside(t, granted) == IF granted THEN Unlocked ELSE t

\* Leaving `async with self._lock`, by the return or past its end, releases
\* the lock: the sleep and the recursive call come after the block.
LockAfter(t, granted) == Unlocked

\* The body of `async with self._lock`: read the clock, evict, then either
\* record the grant and return, or compute sleep_for; the lock is released
\* on both exits.
AcquireCritical(t) ==
    /\ tpc[t] = "locked"
    /\ lock[tlim[t]] = t
    /\ LET l == tlim[t]
           k == tkey[t]
           ev == Evict(events[l][k], now)
       IN  IF HasCapacity(ev)
           THEN /\ events' = [events EXCEPT ![l][k] = Append(ev, now)]
                /\ grants' = [grants EXCEPT ![l][k] = Append(@, now)]
                /\ tpc' = [tpc EXCEPT ![t] = "done"]
                /\ toldest' = [toldest EXCEPT ![t] = <<>>]
                /\ tretried' = [tretried EXCEPT ![t] = FALSE]
                /\ UNCHANGED <<twake, tsleep>>
           ELSE /\ events' = [events EXCEPT ![l][k] = ev]
                /\ tsleep' = [tsleep EXCEPT ![t] = Max(SleepFor(ev, now), 0)]
                /\ twake' = [twake EXCEPT ![t] = now + Max(SleepFor(ev, now), 0)]
                /\ toldest' = [toldest EXCEPT ![t] = IF @ = <<>> THEN <<Head(ev)>> ELSE @]
                /\ tpc' = [tpc EXCEPT ![t] = "sleeping"]
                /\ UNCHANGED <<grants, tretried>>
    /\ lock' = [lock EXCEPT ![tlim[t]] =
                    LockAfter(t, HasCapacity(Evict(events[tlim[t]][tkey[t]], now)))]
    /\ UNCHANGED <<now, max_calls, tlim, tkey>>
    /\ UNCHANGED <<redis, runVars, dueVars, dispatchVars>>

\* asyncio.sleep(...) is over: await self.acquire(key) starts the check again.
AcquireRetry(t) ==
    /\ tpc[t] = "sleeping"
    /\ now >= twake[t]
    /\ tpc' = [tpc EXCEPT ![t] = "enter"]
    /\ twake' = [twake EXCEPT ![t] = 0]
    /\ tsleep' = [tsleep EXCEPT ![t] = 0]
    /\ tretried' = [tretried EXCEPT ![t] = TRUE]
    /\ UNCHANGED <<now, max_calls, events, lock, tlim, tkey, toldest, grants>>
    /\ UNCHANGED <<redis, runVars, dueVars, dispatchVars>>

LimiterTickClock ==
    /\ now + LimiterTick <= LimiterHorizon
    /\ now' = now + LimiterTick
    /\ UNCHANGED <<limiterVars, redis, runVars, dueVars, dispatchVars>>

\* One limiter on its own, called with any key.
LimiterNext ==
    \/ \E t \in Tasks, k \in Keys : AcquireCall(t, 1, k)
    \/ \E t \in Tasks : AcquireEnter(t)
    \/ \E t \in Tasks : AcquireCritical(t)
    \/ \E t \in Tasks : AcquireRetry(t)
    \/ LimiterTickClock

\* AdapterContext.throttle: self.rate_limit.acquire(), the key is the default.
ThrottleCall(t, r) == AcquireCall(t, r, "default")

\* The throttled actions of concurrent runs of one adapter, each run with the
\* limiter it built.
ThrottleNext ==
    \/ \E t \in Tasks, r \in Runs : ThrottleCall(t, r)
    \/ \E t \in Tasks : AcquireEnter(t)
    \/ \E t \in Tasks : AcquireCritical(t)
    \/ \E t \in Tasks : AcquireRetry(t)
    \/ LimiterTickClock


(***************************************************************************)
(* Strings that are concatenated (slugs, fingerprints, Redis keys) are     *)
(* sequences of their ":"-separated parts; "" is <<>>.  An optional value  *)
(* is <<>> (None) or <<v>>.                                                *)
(***************************************************************************)
DemoSlug == <<"demo-board">>
OtherSlug == <<"other-board">>
Slugs == {DemoSlug, OtherSlug}

\* ADAPTER_REGISTRY = {DemoBoardAdapter.slug: DemoBoardAdapter}
ADAPTER_REGISTRY == {DemoSlug}

\* BaseSiteAdapter.dedupe_ttl_seconds = 60 * 60 * 24 (DemoBoardAdapter keeps it)
dedupe_ttl_seconds == 60 * 60 * 24

\* What hasattr(playwright, name) accepts as an engine.
SupportedBrowsers == {"chromium", "firefox", "webkit"}
Browsers == {"chromium", "netscape"}

\* The jobs an adapter may yield: one with an external_id, one without.
Jobs ==
    { [external_id |-> <<"a">>, source_url |-> <<"https", "a">>, source |-> <<>>],
      [external_id |-> <<>>, source_url |-> <<"b">>, source |-> <<>>] }

\* The run_id a caller passes: the first run is started with one (as a
\* dispatched task is), the others with None.
RunIdInputs(r) == IF r = 1 THEN {<<"run-1">>} ELSE {<<>>}

\* A bug: every call draws the same identifier.
UuidFixed(who) == <<"uuid">>

\* str(uuid4()): a value no other call produces; `who` says which call drew it
Uuid(who) == <<"uuid">> \o who

(***************************************************************************)
(* Redis: SET key value NX EX ttl, and expiry.  A key lives until the      *)
(* clock passes its expiry time.                                           *)
(***************************************************************************)
Live(store, key, t) == key \in DOMAIN store /\ t <= store[key].expires

\* A bug: the expiry is given in milliseconds (px=) where seconds were meant.
PutMillis(store, key, val, ttl, t) ==
    [k \in DOMAIN store \cup {key} |->
        IF k = key THEN [value |-> val, expires |-> t + (ttl \div 1000)] ELSE store[k]]

\* SET key val EX ttl: the key expires ttl seconds from now
Put(store, key, val, ttl, t) ==
    [k \in DOMAIN store \cup {key} |->
        IF k = key THEN [value |-> val, expires |-> t + ttl] ELSE store[k]]

Purge(store, t) == [k \in {x \in DOMAIN store : Live(store, x, t)} |-> store[k]]

\* A bug: the set is issued without nx=True, so it succeeds on a live key too.
SetNxExWithoutNx(store, key, val, ttl, t) ==
    [added |-> TRUE, store |-> Put(store, key, val, ttl, t)]

\* A bug: an existing marker's expiry is refreshed by the duplicate check.
SetNxExRefreshing(store, key, val, ttl, t) ==
    [added |-> ~Live(store, key, t), store |-> Put(store, key, val, ttl, t)]

\* redis.set(key, val, nx=True, ex=ttl): one atomic command
SetNxEx(store, key, val, ttl, t) ==
    IF Live(store, key, t)
    THEN [added |-> FALSE, store |-> store]
    ELSE [added |-> TRUE, store |-> Put(store, key, val, ttl, t)]

(***************************************************************************)
(* JobDeduper (dedupe.py)                                                  *)
(***************************************************************************)
\* A bug: the deduper is built without namespace=, every adapter gets the default.
DedupeNamespaceShared(slug) == <<"scrape", "dedupe">>

\* namespace=f"scrape:dedupe:{adapter_slug}"
DedupeNamespace(slug) == <<"scrape", "dedupe">> \o slug

\* key = f"{self.namespace}:{fingerprint}"
DedupeKey(ns, fingerprint) == ns \o fingerprint

\* A bug: `added` returned where `added is None` was meant.
is_duplicateInverted(store, ns, ttl, fingerprint, t) ==
    LET res == SetNxEx(store, DedupeKey(ns, fingerprint), "1", ttl, t)
    IN  [dup |-> res.added, store |-> res.store]

\* JobDeduper.is_duplicate: [dup, store]; dup is `added is None`
is_duplicate(store, ns, ttl, fingerprint, t) ==
    LET res == SetNxEx(store, DedupeKey(ns, fingerprint), "1", ttl, t)
    IN  [dup |-> ~res.added, store |-> res.store]

\* A bug: EXPIRE written as a plain SET with a TTL, which creates the key.
ExpireCreating(store, key, ttl, t) == Put(store, key, "1", ttl, t)

\* redis.expire(key, ttl): a live key gets the expiry now + ttl (a TTL that is
\* not positive deletes it); a missing key is left missing.
Expire(store, key, ttl, t) ==
    IF ~Live(store, key, t) THEN store
    ELSE IF ttl <= 0 THEN [k \in DOMAIN store \ {key} |-> store[k]]
    ELSE [store EXCEPT ![key].expires = t + ttl]

\* JobDeduper.reset: the store after redis.expire(key, timedelta(seconds=ttl))
reset(store, ns, ttl, fingerprint, t) ==
    Expire(store, DedupeKey(ns, fingerprint), ttl, t)

\* BaseSiteAdapter.dedupe_key: job.external_id or job.source_url
dedupe_key(job) ==
    IF job.external_id # <<>> THEN job.external_id ELSE job.source_url

(***************************************************************************)
(* ScrapeService.run_adapter (service.py)                                  *)
(***************************************************************************)
RunInit ==
    /\ rpc = [r \in Runs |-> "idle"]
    /\ rslug = [r \in Runs |-> <<>>]
    /\ rbrowser = [r \in Runs |-> None]
    /\ rrunid = [r \in Runs |-> <<>>]
    /\ processed = [r \in Runs |-> 0]
    /\ dropped = [r \in Runs |-> 0]
    /\ collected = [r \in Runs |-> <<>>]
    /\ session = [r \in Runs |-> "none"]
    /\ rresult = [r \in Runs |-> <<>>]
    /\ rerror = [r \in Runs |-> None]
    /\ checks = <<>>
    /\ ingestLog = <<>>
    /\ navs = <<>>
    /\ dedupeLog = <<>>

\* A bug: an unknown slug falls back to the demo adapter instead of raising.
get_adapterWithDefault(slug) ==
    [ok |-> TRUE, slug |-> slug, dedupe_ttl_seconds |-> dedupe_ttl_seconds]

\* get_adapter(slug): the registry entry, or ScraperException
get_adapter(slug) ==
    IF slug \in ADAPTER_REGISTRY
    THEN [ok |-> TRUE, slug |-> slug, dedupe_ttl_seconds |-> dedupe_ttl_seconds]
    ELSE [ok |-> FALSE, slug |-> slug, dedupe_ttl_seconds |-> 0]

\* Lines 46-59: resolve the adapter, build limiter, deduper and context,
\* zero the counters, settle the run id.
RunStart(r, slug, browser, rid) ==
    /\ rpc[r] = "idle"
    /\ rslug' = [rslug EXCEPT ![r] = slug]
    /\ IF ~get_adapter(slug).ok
       THEN /\ rpc' = [rpc EXCEPT ![r] = "raised"]
            /\ rerror' = [rerror EXCEPT ![r] = "ScraperException"]
            /\ UNCHANGED <<rbrowser, rrunid>>
       ELSE /\ rpc' = [rpc EXCEPT ![r] = "opening"]
            /\ rbrowser' = [rbrowser EXCEPT ![r] = browser]
            /\ rrunid' = [rrunid EXCEPT ![r] = IF rid # <<>> THEN rid ELSE Uuid(<<"run", ToString(r)>>)]
            /\ UNCHANGED rerror
    /\ UNCHANGED <<processed, dropped, collected, session, rresult, checks, ingestLog>>
    /\ UNCHANGED <<navs, dedupeLog, now, limiterVars, redis, dueVars, dispatchVars>>

\* A bug: the session is entered without a context manager and never closed.
ExitSessionLeaky(s) == s

\* Leaving `async with async_playwright()`, normally or by an exception,
\* closes the session.
ExitSession(s) == "closed"

\* async with async_playwright() as playwright
RunOpenSession(r) ==
    /\ rpc[r] = "opening"
    /\ session' = [session EXCEPT ![r] = "open"]
    /\ rpc' = [rpc EXCEPT ![r] = "opened"]
    /\ UNCHANGED <<rslug, rbrowser, rrunid, processed, dropped, collected,
                   rresult, rerror, checks, ingestLog>>
    /\ UNCHANGED <<navs, dedupeLog, now, limiterVars, redis, dueVars, dispatchVars>>

\* if not hasattr(playwright, context.browser_name): raise ValueError
\* (the context manager closes the session on the way out)
RunCheckBrowser(r) ==
    /\ rpc[r] = "opened"
    /\ IF rbrowser[r] \notin SupportedBrowsers
       THEN /\ rpc' = [rpc EXCEPT ![r] = "raised"]
            /\ rerror' = [rerror EXCEPT ![r] = "ValueError"]
            /\ session' = [session EXCEPT ![r] = ExitSession(@)]
       ELSE /\ rpc' = [rpc EXCEPT ![r] = "iterating"]
            /\ UNCHANGED <<rerror, session>>
    /\ UNCHANGED <<rslug, rbrowser, rrunid, processed, dropped, collected,
                   rresult, checks, ingestLog>>
    /\ UNCHANGED <<navs, dedupeLog, now, limiterVars, redis, dueVars, dispatchVars>>

\* One turn of `async for job in adapter.scrape(playwright)`.
RunItem(r, yielded) ==
    /\ rpc[r] = "iterating"
    /\ Len(checks) < MaxChecks
    /\ LET adapter == get_adapter(rslug[r])
           job == [yielded EXCEPT !.source = adapter.slug]
           fingerprint == dedupe_key(job)
           ns == DedupeNamespace(rslug[r])
           res == is_duplicate(redis, ns, adapter.dedupe_ttl_seconds, fingerprint, now)
       IN  /\ processed' = [processed EXCEPT ![r] = @ + 1]
           /\ redis' = res.store
           /\ checks' = Append(checks,
                  [run |-> r, key |-> DedupeKey(ns, fingerprint), job |-> job,
                   fingerprint |-> fingerprint, t |-> now, had |-> Live(redis, DedupeKey(ns, fingerprint), now),
                   dup |-> res.dup, raised |-> FALSE])
           /\ IF res.dup
              THEN /\ dropped' = [dropped EXCEPT ![r] = @ + 1]
                   /\ UNCHANGED collected
              ELSE /\ collected' = [collected EXCEPT ![r] = Append(@, job)]
                   /\ UNCHANGED dropped
    /\ UNCHANGED <<rpc, rslug, rbrowser, rrunid, session, rresult, rerror,
                   ingestLog>>
    /\ UNCHANGED <<navs, dedupeLog, now, limiterVars, dueVars, dispatchVars>>

\* A bug: the loop swallows the adapter's error and the run goes on to ingest.
AfterAdapterErrorSwallowed == "closed"

\* Nothing around `async for job in adapter.scrape(playwright)` catches: the
\* error leaves run_adapter.
AfterAdapterError == "raised"

\* The adapter raises while being iterated; the session is closed on the way out.
RunAdapterRaises(r) ==
    /\ rpc[r] = "iterating"
    /\ rpc' = [rpc EXCEPT ![r] = AfterAdapterError]
    /\ rerror' = [rerror EXCEPT ![r] = "AdapterError"]
    /\ session' = [session EXCEPT ![r] = ExitSession(@)]
    /\ UNCHANGED <<rslug, rbrowser, rrunid, processed, dropped, collected,
                   rresult, checks, ingestLog>>
    /\ UNCHANGED <<navs, dedupeLog, now, limiterVars, redis, dueVars, dispatchVars>>

\* dedupe.is_duplicate raises for the item just yielded (Redis unreachable or
\* the connection lost): processed has counted the item; the SET may or may
\* not have been carried out by the server before the error (when it was, the
\* call is in the history with the answer the run never saw).  The session is
\* closed on the way out.
RunDeduperRaises(r, yielded, landed) ==
    /\ rpc[r] = "iterating"
    /\ Len(checks) < MaxChecks
    /\ LET adapter == get_adapter(rslug[r])
           job == [yielded EXCEPT !.source = adapter.slug]
           fingerprint == dedupe_key(job)
           ns == DedupeNamespace(rslug[r])
           res == is_duplicate(redis, ns, adapter.dedupe_ttl_seconds, fingerprint, now)
       IN  IF landed
           THEN /\ redis' = res.store
                /\ checks' = Append(checks,
                       [run |-> r, key |-> DedupeKey(ns, fingerprint), job |-> job,
                        fingerprint |-> fingerprint, t |-> now,
                        had |-> Live(redis, DedupeKey(ns, fingerprint), now),
                        dup |-> res.dup, raised |-> TRUE])
           ELSE UNCHANGED <<redis, checks>>
    /\ processed' = [processed EXCEPT ![r] = @ + 1]
    /\ rpc' = [rpc EXCEPT ![r] = "raised"]
    /\ rerror' = [rerror EXCEPT ![r] = "RedisError"]
    /\ session' = [session EXCEPT ![r] = ExitSession(@)]
    /\ UNCHANGED <<rslug, rbrowser, rrunid, dropped, collected, rresult, ingestLog>>
    /\ UNCHANGED <<navs, dedupeLog, now, limiterVars, dueVars, dispatchVars>>

\* The adapter's sequence ends; leaving the `async with` closes the session.
RunExhausted(r) ==
    /\ rpc[r] = "iterating"
    /\ rpc' = [rpc EXCEPT ![r] = "closed"]
    /\ session' = [session EXCEPT ![r] = ExitSession(@)]
    /\ UNCHANGED <<rslug, rbrowser, rrunid, processed, dropped, collected,
                   rresult, rerror, checks, ingestLog>>
    /\ UNCHANGED <<navs, dedupeLog, now, limiterVars, redis, dueVars, dispatchVars>>

\* A bug: processed reports the length of the batch, not the items yielded.
ScrapeRunResultMiscounted(r, response) ==
    [adapter |-> rslug[r], run_id |-> rrunid[r], processed |-> Len(collected[r]),
     sent |-> Len(collected[r]), dropped |-> dropped[r],
     ingestion_response |-> response]

\* ScrapeRunResult(...)
ScrapeRunResult(r, response) ==
    [adapter |-> rslug[r], run_id |-> rrunid[r], processed |-> processed[r],
     sent |-> Len(collected[r]), dropped |-> dropped[r],
     ingestion_response |-> response]

\* A bug: the batch is submitted whether or not it is empty.
ShouldIngestAlways(batch) == TRUE

\* if collected:
ShouldIngest(batch) == batch # <<>>

\* A bug: ingest_jobs without raise_for_status, an error status is swallowed.
IngestRaisesNever(apiOk) == FALSE

\* ingest_jobs: response.raise_for_status() raises when the API answers with
\* an error status (or the transport fails).
IngestRaises(apiOk) == ~apiOk

\* Lines 75-96: if collected: ingest_jobs(...); then return the result.
\* Nothing catches what ingest_jobs raises.
RunIngest(r, apiOk) ==
    /\ rpc[r] = "closed"
    /\ IF ShouldIngest(collected[r])
       THEN /\ ingestLog' = Append(ingestLog,
                   [run |-> r, adapter |-> rslug[r], run_id |-> rrunid[r],
                    jobs |-> collected[r], ok |-> apiOk])
            /\ IF ~IngestRaises(apiOk)
               THEN /\ rresult' = [rresult EXCEPT ![r] =
                           <<ScrapeRunResult(r, <<[status |-> "accepted"]>>)>>]
                    /\ rpc' = [rpc EXCEPT ![r] = "done"]
                    /\ UNCHANGED rerror
               ELSE /\ rpc' = [rpc EXCEPT ![r] = "raised"]
                    /\ rerror' = [rerror EXCEPT ![r] = "HTTPStatusError"]
                    /\ UNCHANGED rresult
       ELSE /\ apiOk
            /\ rresult' = [rresult EXCEPT ![r] = <<ScrapeRunResult(r, <<>>)>>]
            /\ rpc' = [rpc EXCEPT ![r] = "done"]
            /\ UNCHANGED <<rerror, ingestLog>>
    /\ UNCHANGED <<rslug, rbrowser, rrunid, processed, dropped, collected,
                   session, checks>>
    /\ UNCHANGED <<navs, dedupeLog, now, limiterVars, redis, dueVars, dispatchVars>>

\* Time passes; Redis drops the keys whose expiry has passed.
RunTickClock ==
    /\ now + RunTick <= RunHorizon
    /\ now' = now + RunTick
    /\ redis' = Purge(redis, now')
    /\ UNCHANGED <<limiterVars, runVars, dueVars, dispatchVars>>

RunNext ==
    \/ \E r \in Runs : \E slug \in Slugs, browser \in Browsers, rid \in RunIdInputs(r) :
          RunStart(r, slug, browser, rid)
    \/ \E r \in Runs : RunOpenSession(r)
    \/ \E r \in Runs : RunCheckBrowser(r)
    \/ \E r \in Runs, job \in Jobs : RunItem(r, job)
    \/ \E r \in Runs : RunAdapterRaises(r)
    \/ \E r \in Runs : RunExhausted(r)
    \/ \E r \in Runs, apiOk \in BOOLEAN : RunIngest(r, apiOk)
    \/ RunTickClock

\* The runs of a registered adapter when Redis may fail under the deduper.
FaultNext ==
    \/ \E r \in Runs : \E browser \in Browsers, rid \in RunIdInputs(r) :
          RunStart(r, DemoSlug, browser, rid)
    \/ \E r \in Runs : RunOpenSession(r)
    \/ \E r \in Runs : RunCheckBrowser(r)
    \/ \E r \in Runs, job \in Jobs : RunItem(r, job)
    \/ \E r \in Runs : RunAdapterRaises(r)
    \/ \E r \in Runs, job \in Jobs, landed \in BOOLEAN : RunDeduperRaises(r, job, landed)
    \/ \E r \in Runs : RunExhausted(r)
    \/ \E r \in Runs : RunIngest(r, TRUE)
    \/ RunTickClock


(***************************************************************************)
(* JobDeduper objects on their own: one per adapter slug, built as         *)
(* run_adapter builds them, called with is_duplicate and reset in any      *)
(* order.                                                                  *)
(***************************************************************************)
\* Slugs and fingerprints whose concatenations overlap: "demo-board" with
\* "eu:a" and "demo-board:eu" with "a" give one key.
DeduperSlugs == {<<"demo-board">>, <<"demo-board", "eu">>}
DeduperPrints == {<<"a">>, <<"eu", "a">>}

\* The expiry of a key, for the history: <<>> when it has no live marker.
ExpiryOf(store, key, t) == IF Live(store, key, t) THEN <<store[key].expires>> ELSE <<>>

DeduperLogged(op, slug, fingerprint, result, after) ==
    LET key == DedupeKey(DedupeNamespace(slug), fingerprint)
    IN  Append(dedupeLog,
           [op |-> op, slug |-> slug, fingerprint |-> fingerprint, key |-> key,
            t |-> now, before |-> ExpiryOf(redis, key, now),
            after |-> ExpiryOf(after, key, now), result |-> result])

\* await dedupe.is_duplicate(fingerprint) on the deduper of `slug`
DeduperCheck(slug, fingerprint) ==
    /\ Len(dedupeLog) < MaxChecks
    /\ LET res == is_duplicate(redis, DedupeNamespace(slug), dedupe_ttl_seconds,
                               fingerprint, now)
       IN  /\ redis' = res.store
           /\ dedupeLog' = DeduperLogged("is_duplicate", slug, fingerprint,
                                         <<res.dup>>, res.store)
    /\ UNCHANGED <<rpc, rslug, rbrowser, rrunid, processed, dropped, collected,
                   session, rresult, rerror, checks, ingestLog, navs>>
    /\ UNCHANGED <<now, limiterVars, dueVars, dispatchVars>>

\* await dedupe.reset(fingerprint) on the deduper of `slug`
DeduperReset(slug, fingerprint) ==
    /\ Len(dedupeLog) < MaxChecks
    /\ LET after == reset(redis, DedupeNamespace(slug), dedupe_ttl_seconds,
                          fingerprint, now)
       IN  /\ redis' = after
           /\ dedupeLog' = DeduperLogged("reset", slug, fingerprint, <<>>, after)
    /\ UNCHANGED <<rpc, rslug, rbrowser, rrunid, processed, dropped, collected,
                   session, rresult, rerror, checks, ingestLog, navs>>
    /\ UNCHANGED <<now, limiterVars, dueVars, dispatchVars>>

DeduperNext ==
    \/ \E slug \in DeduperSlugs, f \in DeduperPrints : DeduperCheck(slug, f)
    \/ \E slug \in DeduperSlugs, f \in DeduperPrints : DeduperReset(slug, f)
    \/ RunTickClock

(***************************************************************************)
(* DemoBoardAdapter.scrape (adapters/demo.py), the one registered adapter, *)
(* driven by run_adapter.                                                  *)
(***************************************************************************)
\* What eval_on_selector_all finds in the adapter's document, as the jobs the
\* generator yields, in order.
DemoListings ==
    << [external_id |-> <<"demo-1">>, source_url |-> <<"https", "jobs.example/demo-1">>,
        source |-> <<>>],
       [external_id |-> <<"demo-2">>, source_url |-> <<"https", "jobs.example/demo-2">>,
        source |-> <<>>] >>

Navigated(r) == \E i \in 1..Len(navs) : navs[i].run = r

\* Lines 41-55, run by the first turn of the `async for`: launch the browser,
\* open a page, page.goto(...), read the listings.  Nothing on the way calls
\* self.throttle(): the navigation goes out with whatever number of grants the
\* run's limiter has given so far.
ScrapeGoto(r) ==
    /\ rpc[r] = "iterating"
    /\ ~Navigated(r)
    /\ navs' = Append(navs, [run |-> r, t |-> now, action |-> "page.goto",
                             granted |-> Len(grants[r]["default"])])
    /\ UNCHANGED <<rpc, rslug, rbrowser, rrunid, processed, dropped, collected,
                   session, rresult, rerror, checks, ingestLog, dedupeLog>>
    /\ UNCHANGED <<now, limiterVars, redis, dueVars, dispatchVars>>

\* Lines 57-69 and the loop body of run_adapter: the next listing is yielded
\* and handled.
ScrapeYield(r) ==
    /\ Navigated(r)
    /\ processed[r] < Len(DemoListings)
    /\ RunItem(r, DemoListings[processed[r] + 1])

\* Lines 70-72: the listings are exhausted, page and browser are closed, the
\* generator ends.
ScrapeDone(r) ==
    /\ Navigated(r)
    /\ processed[r] = Len(DemoListings)
    /\ RunExhausted(r)

\* Runs of the demo board with its scrape spelled out.  No step of the adapter
\* calls throttle(), so no acquire is ever started on a run's limiter.
ScrapeNext ==
    \/ \E r \in Runs : \E browser \in Browsers, rid \in RunIdInputs(r) :
          RunStart(r, DemoSlug, browser, rid)
    \/ \E r \in Runs : RunOpenSession(r)
    \/ \E r \in Runs : RunCheckBrowser(r)
    \/ \E r \in Runs : ScrapeGoto(r)
    \/ \E r \in Runs : ScrapeYield(r)
    \/ \E r \in Runs : ScrapeDone(r)
    \/ \E r \in Runs, apiOk \in BOOLEAN : RunIngest(r, apiOk)
    \/ RunTickClock

(***************************************************************************)
(* ScrapeScheduleEntry.is_due (schedule.py)                                *)
(***************************************************************************)
Intervals == {1, 2, 60}

\* A bug: `>` for `>=`, an entry exactly one interval old is held back.
is_dueStrict(entry, last_dispatch_at, nowArg, clock) ==
    IF ~entry.enabled THEN FALSE
    ELSE LET reference == IF last_dispatch_at # <<>> THEN last_dispatch_at
                          ELSE entry.last_run_at
             t == IF nowArg # <<>> THEN nowArg[1] ELSE clock
         IN  IF reference = <<>> THEN TRUE
             ELSE t - reference[1] > entry.interval_minutes * 60

\* A bug: the enabled flag is not looked at.
is_dueIgnoringEnabled(entry, last_dispatch_at, nowArg, clock) ==
    LET reference == IF last_dispatch_at # <<>> THEN last_dispatch_at
                     ELSE entry.last_run_at
        t == IF nowArg # <<>> THEN nowArg[1] ELSE clock
    IN  IF reference = <<>> THEN TRUE
        ELSE t - reference[1] >= entry.interval_minutes * 60

\* A bug: the entry's last_run_at is not used when no timestamp is persisted.
is_dueWithoutFallback(entry, last_dispatch_at, nowArg, clock) ==
    IF ~entry.enabled THEN FALSE
    ELSE LET t == IF nowArg # <<>> THEN nowArg[1] ELSE clock
         IN  IF last_dispatch_at = <<>> THEN TRUE
             ELSE t - last_dispatch_at[1] >= entry.interval_minutes * 60

\* is_due(self, last_dispatch_at, now): timestamps are <<>> (None) or <<seconds>>;
\* `clock` is datetime.now(timezone.utc), used when now is None.
is_due(entry, last_dispatch_at, nowArg, clock) ==
    IF ~entry.enabled THEN FALSE
    ELSE LET reference == IF last_dispatch_at # <<>> THEN last_dispatch_at
                          ELSE entry.last_run_at
             t == IF nowArg # <<>> THEN nowArg[1] ELSE clock
         IN  IF reference = <<>> THEN TRUE
             ELSE t - reference[1] >= entry.interval_minutes * 60

\* ScrapeScheduleEntry(adapter, interval_minutes, enabled, last_run_at)
ScrapeScheduleEntry(adapter, interval_minutes, enabled, last_run_at) ==
    [adapter |-> adapter, interval_minutes |-> interval_minutes,
     enabled |-> enabled, last_run_at |-> last_run_at]

\* The timestamps is_due is tried on, in seconds.
DueTimes == {0, 59, 60, 1860, 3600, 3601, 3660}
DueStamps == {<<>>} \cup {<<t>> : t \in DueTimes}
DueEntries ==
    {ScrapeScheduleEntry(DemoSlug, i, e, l) :
        i \in Intervals, e \in BOOLEAN, l \in DueStamps}

DueInit ==
    /\ dueArgs = <<>>
    /\ dueResult = <<>>

\* A caller evaluates entry.is_due(last_dispatch_at, now).
DueCall(entry, last_dispatch_at, nowArg) ==
    /\ dueArgs = <<>>
    /\ dueArgs' = <<[entry |-> entry, last_dispatch_at |-> last_dispatch_at,
                     now |-> nowArg]>>
    /\ dueResult' = <<is_due(entry, last_dispatch_at, nowArg, now)>>
    /\ UNCHANGED <<now, limiterVars, redis, runVars, dispatchVars>>

\* The clock the is_due caller reads is anywhere.
DueSetClock(t) ==
    /\ dueArgs = <<>>
    /\ now # t
    /\ now' = t
    /\ UNCHANGED <<limiterVars, redis, runVars, dueVars, dispatchVars>>

DueNext ==
    \/ \E entry \in DueEntries, l \in DueStamps, n \in DueStamps : DueCall(entry, l, n)
    \/ \E t \in DueTimes : DueSetClock(t)

(***************************************************************************)
(* ScheduleDispatcher (service.py)                                         *)
(***************************************************************************)
\* f"scrape:last_dispatch:{entry.adapter}"
LastDispatchKey(adapter) == <<"scrape", "last_dispatch">> \o adapter

\* datetime.isoformat() and datetime.fromisoformat()
IsoFormat(t) == [iso |-> t]
FromIsoFormat(text) == text.iso

\* redis.get(key): <<>> (None) or <<value>>
Get(store, key, t) == IF Live(store, key, t) THEN <<store[key].value>> ELSE <<>>

\* The entries the schedule API may return: the demo board with any interval,
\* flag and last_run_at, and a second adapter name (the dispatcher does not
\* look the name up in the registry).
ApiEntries ==
    {ScrapeScheduleEntry(DemoSlug, i, e, l) :
        i \in {1, 2}, e \in BOOLEAN, l \in {<<>>, <<0>>}}
    \cup {ScrapeScheduleEntry(OtherSlug, 1, e, <<>>) : e \in BOOLEAN}

RECURSIVE SeqsUpTo(_, _)
SeqsUpTo(S, n) ==
    IF n = 0 THEN {<<>>}
    ELSE LET shorter == SeqsUpTo(S, n - 1)
         IN  shorter \cup {Append(q, x) : q \in shorter, x \in S}

ApiSchedules == SeqsUpTo(ApiEntries, MaxEntries)

\* list(ADAPTER_REGISTRY.keys()), in insertion order
RegistryKeys == <<DemoSlug>>

\* A bug: the fallback entries are built disabled.
DefaultSchedulesDisabled ==
    [i \in 1..Len(RegistryKeys) |->
        ScrapeScheduleEntry(RegistryKeys[i], default_scrape_interval_minutes, FALSE, <<>>)]

\* Lines 105-113: one default entry per registered adapter
DefaultSchedules ==
    [i \in 1..Len(RegistryKeys) |->
        ScrapeScheduleEntry(RegistryKeys[i], default_scrape_interval_minutes, TRUE, <<>>)]

\* ScrapeDispatchRecord(adapter, run_id, dispatched, reason)
ScrapeDispatchRecord(adapter, run_id, dispatched, reason) ==
    [adapter |-> adapter, run_id |-> run_id, dispatched |-> dispatched,
     reason |-> reason]

DispatchInit ==
    /\ dpc = [d \in Dispatchers |-> "idle"]
    /\ fetched = [d \in Dispatchers |-> <<>>]
    /\ schedules = [d \in Dispatchers |-> <<>>]
    /\ cycleNow = [d \in Dispatchers |-> 0]
    /\ didx = [d \in Dispatchers |-> 0]
    /\ details = [d \in Dispatchers |-> <<>>]
    /\ ndispatched = [d \in Dispatchers |-> 0]
    /\ drunid = [d \in Dispatchers |-> <<>>]
    /\ dsent = [d \in Dispatchers |-> <<>>]
    /\ dreads = [d \in Dispatchers |-> <<>>]
    /\ dwrites = [d \in Dispatchers |-> <<>>]
    /\ summary = [d \in Dispatchers |-> <<>>]
    /\ crashed = [d \in Dispatchers |-> <<>>]
    /\ dhistory = <<>>

\* Lines 103-116: fetch the schedule, fall back to the defaults when it is
\* empty, capture now, start the loop.
DispatchFetch(d, api) ==
    /\ dpc[d] = "idle"
    /\ fetched' = [fetched EXCEPT ![d] = api]
    /\ schedules' = [schedules EXCEPT ![d] = IF api = <<>> THEN DefaultSchedules ELSE api]
    /\ cycleNow' = [cycleNow EXCEPT ![d] = now]
    /\ didx' = [didx EXCEPT ![d] = 1]
    /\ details' = [details EXCEPT ![d] = <<>>]
    /\ ndispatched' = [ndispatched EXCEPT ![d] = 0]
    /\ drunid' = [drunid EXCEPT ![d] = <<>>]
    /\ dsent' = [dsent EXCEPT ![d] = <<>>]
    /\ dreads' = [dreads EXCEPT ![d] = <<>>]
    /\ dwrites' = [dwrites EXCEPT ![d] = <<>>]
    /\ summary' = [summary EXCEPT ![d] = <<>>]
    /\ dpc' = [dpc EXCEPT ![d] = "loop"]
    /\ UNCHANGED <<dhistory, crashed, now, limiterVars, redis, runVars, dueVars>>

\* _handle_entry, lines 130-141: read the marker, decide; when due, draw a run
\* id and send the task (the redis.set that follows is DispatchPersist).
\* The history dhistory is left to the actions that compose this one:
\* DispatchEntry leaves it as it is, CadenceEntry adds to it.
DispatchHandleEntry(d) ==
    /\ dpc[d] = "loop"
    /\ didx[d] <= Len(schedules[d])
    /\ LET entry == schedules[d][didx[d]]
           raw_last_run == Get(redis, LastDispatchKey(entry.adapter), now)
           last_dispatched_at ==
               IF raw_last_run # <<>> THEN <<FromIsoFormat(raw_last_run[1])>> ELSE <<>>
       IN  /\ dreads' = [dreads EXCEPT ![d] = Append(@, raw_last_run)]
           /\ IF ~is_due(entry, last_dispatched_at, <<cycleNow[d]>>, now)
              THEN /\ details' = [details EXCEPT ![d] =
                          Append(@, ScrapeDispatchRecord(entry.adapter, <<>>, FALSE, <<"not_due">>))]
                   /\ didx' = [didx EXCEPT ![d] = @ + 1]
                   /\ UNCHANGED <<dpc, drunid, dsent>>
              ELSE /\ drunid' = [drunid EXCEPT ![d] = <<Uuid(<<d, ToString(didx[d])>>)>>]
                   /\ dsent' = [dsent EXCEPT ![d] =
                          Append(@, [idx |-> didx[d], t |-> now, task |-> "autohire.scrape.run",
                                     adapter_name |-> entry.adapter,
                                     run_id |-> Uuid(<<d, ToString(didx[d])>>),
                                     queue |-> "scrape"])]
                   /\ dpc' = [dpc EXCEPT ![d] = "persist"]
                   /\ UNCHANGED <<details, didx>>
    /\ UNCHANGED <<fetched, schedules, cycleNow, ndispatched, dwrites, summary, crashed>>
    /\ UNCHANGED <<now, limiterVars, redis, runVars, dueVars>>

\* _handle_entry up to send_task, with no history kept across cycles.
DispatchEntry(d) == DispatchHandleEntry(d) /\ UNCHANGED dhistory

\* A bug: the expiry is given in minutes.
MarkerTtlInMinutes(entry) == entry.interval_minutes

\* ex=int(entry.interval_minutes * 60)
MarkerTtl(entry) == entry.interval_minutes * 60

\* _handle_entry, lines 142-143, and dispatch, lines 119-121: persist now as
\* the adapter's last dispatch, return the record, count it.
DispatchPersist(d) ==
    /\ dpc[d] = "persist"
    /\ LET entry == schedules[d][didx[d]]
           key == LastDispatchKey(entry.adapter)
           ex == MarkerTtl(entry)
       IN  /\ redis' = Put(redis, key, IsoFormat(cycleNow[d]), ex, now)
           /\ dwrites' = [dwrites EXCEPT ![d] =
                  Append(@, [idx |-> didx[d], key |-> key,
                             value |-> IsoFormat(cycleNow[d]), ex |-> ex])]
           /\ details' = [details EXCEPT ![d] =
                  Append(@, ScrapeDispatchRecord(entry.adapter, drunid[d], TRUE, <<>>))]
    /\ ndispatched' = [ndispatched EXCEPT ![d] = @ + 1]
    /\ didx' = [didx EXCEPT ![d] = @ + 1]
    /\ drunid' = [drunid EXCEPT ![d] = <<>>]
    /\ dpc' = [dpc EXCEPT ![d] = "loop"]
    /\ UNCHANGED <<fetched, schedules, cycleNow, dsent, dreads, summary, crashed>>
    /\ UNCHANGED <<dhistory, now, limiterVars, runVars, dueVars>>

\* A bug: every entry is counted as skipped.
SkippedAll(evaluated, dispatched) == evaluated

\* skipped = len(schedules) - dispatched
Skipped(evaluated, dispatched) == evaluated - dispatched

\* Lines 122-127: the loop is over, return the summary.
DispatchFinish(d) ==
    /\ dpc[d] = "loop"
    /\ didx[d] > Len(schedules[d])
    /\ summary' = [summary EXCEPT ![d] =
           <<[evaluated |-> Len(schedules[d]), dispatched |-> ndispatched[d],
              skipped |-> Skipped(Len(schedules[d]), ndispatched[d]),
              details |-> details[d]]>>]
    /\ dpc' = [dpc EXCEPT ![d] = "done"]
    /\ UNCHANGED <<fetched, schedules, cycleNow, didx, details, ndispatched, drunid,
                   dsent, dreads, dwrites, crashed>>
    /\ UNCHANGED <<dhistory, now, limiterVars, redis, runVars, dueVars>>

\* dispatch has returned its summary to the caller; its locals are gone and
\* the dispatcher is ready for the next cycle.
DispatchReturn(d) ==
    /\ dpc[d] = "done"
    /\ dpc' = [dpc EXCEPT ![d] = "idle"]
    /\ fetched' = [fetched EXCEPT ![d] = <<>>]
    /\ schedules' = [schedules EXCEPT ![d] = <<>>]
    /\ cycleNow' = [cycleNow EXCEPT ![d] = 0]
    /\ didx' = [didx EXCEPT ![d] = 0]
    /\ details' = [details EXCEPT ![d] = <<>>]
    /\ ndispatched' = [ndispatched EXCEPT ![d] = 0]
    /\ dsent' = [dsent EXCEPT ![d] = <<>>]
    /\ dreads' = [dreads EXCEPT ![d] = <<>>]
    /\ dwrites' = [dwrites EXCEPT ![d] = <<>>]
    /\ summary' = [summary EXCEPT ![d] = <<>>]
    /\ crashed' = [crashed EXCEPT ![d] = <<>>]
    /\ UNCHANGED <<dhistory, drunid, now, limiterVars, redis, runVars, dueVars>>

\* The cycle dies where it stands: redis.get or redis.set raises, or the worker
\* process is killed.  Nothing in dispatch or _handle_entry catches or undoes
\* anything; what was sent and written stays.  The next cycle starts afresh.
DispatchCrash(d) ==
    /\ dpc[d] \in {"loop", "persist"}
    /\ crashed' = [crashed EXCEPT ![d] =
           <<[at |-> now, now |-> cycleNow[d],
              sent |-> {[adapter |-> dsent[d][k].adapter_name,
                         interval_minutes |-> schedules[d][dsent[d][k].idx].interval_minutes]
                        : k \in 1..Len(dsent[d])},
              written |-> {dwrites[d][k].key : k \in 1..Len(dwrites[d])}]>>]
    /\ dpc' = [dpc EXCEPT ![d] = "idle"]
    /\ fetched' = [fetched EXCEPT ![d] = <<>>]
    /\ schedules' = [schedules EXCEPT ![d] = <<>>]
    /\ cycleNow' = [cycleNow EXCEPT ![d] = 0]
    /\ didx' = [didx EXCEPT ![d] = 0]
    /\ details' = [details EXCEPT ![d] = <<>>]
    /\ ndispatched' = [ndispatched EXCEPT ![d] = 0]
    /\ drunid' = [drunid EXCEPT ![d] = <<>>]
    /\ dsent' = [dsent EXCEPT ![d] = <<>>]
    /\ dreads' = [dreads EXCEPT ![d] = <<>>]
    /\ dwrites' = [dwrites EXCEPT ![d] = <<>>]
    /\ UNCHANGED <<dhistory, summary, now, limiterVars, redis, runVars, dueVars>>

\* Time passes; Redis drops the keys whose expiry has passed.
DispatchTickClock ==
    /\ now + DispatchTick <= DispatchHorizon
    /\ now' = now + DispatchTick
    /\ redis' = Purge(redis, now')
    /\ UNCHANGED <<limiterVars, runVars, dueVars, dispatchVars>>

\* One dispatcher process running its cycles one after another.
DispatchNext ==
    \/ \E api \in ApiSchedules : DispatchFetch("beat-1", api)
    \/ DispatchEntry("beat-1")
    \/ DispatchPersist("beat-1")
    \/ DispatchFinish("beat-1")
    \/ DispatchReturn("beat-1")
    \/ DispatchTickClock

\* The schedules of the crash-and-re-run specification: enabled entries only.
CrashEntries == {e \in ApiEntries : e.enabled}
CrashSchedules == SeqsUpTo(CrashEntries, MaxEntries) \ {<<>>}

\* One dispatcher process whose cycles may crash and are run again.
CrashNext ==
    \/ \E api \in CrashSchedules : DispatchFetch("beat-1", api)
    \/ DispatchEntry("beat-1")
    \/ DispatchPersist("beat-1")
    \/ DispatchFinish("beat-1")
    \/ DispatchReturn("beat-1")
    \/ DispatchCrash("beat-1")
    \/ DispatchTickClock

\* The schedules of the two-dispatcher specification: one enabled entry
\* that was never run.
RaceEntries == {e \in CrashEntries : e.last_run_at = <<>>}
RaceSchedules == {<<e>> : e \in RaceEntries}

\* Two dispatcher processes (two beat workers, or a cycle started before the
\* previous one is over) on one store; each step of either may come between
\* any two steps of the other.
RaceNext ==
    \/ \E d \in Dispatchers, api \in RaceSchedules : DispatchFetch(d, api)
    \/ \E d \in Dispatchers : DispatchEntry(d)
    \/ \E d \in Dispatchers : DispatchPersist(d)
    \/ \E d \in Dispatchers : DispatchFinish(d)
    \/ \E d \in Dispatchers : DispatchReturn(d)
    \/ DispatchTickClock

\* _handle_entry up to send_task, with the tasks sent kept across cycles:
\* adapter, interval, the cycle's now, the clock at send_task and what
\* redis.get had returned.
CadenceEntry(d) ==
    /\ DispatchHandleEntry(d)
    /\ dhistory' =
          IF dpc'[d] = "persist"
          THEN LET entry == schedules[d][didx[d]]
               IN  Append(dhistory,
                      [adapter |-> entry.adapter,
                       interval_minutes |-> entry.interval_minutes,
                       now |-> cycleNow[d], t |-> now,
                       read |-> Get(redis, LastDispatchKey(entry.adapter), now)])
          ELSE dhistory

\* The schedules of the cadence specification: one enabled entry.
CadenceSchedules == {<<e>> : e \in CrashEntries}

\* One dispatcher process running complete cycles one after another, with the
\* tasks it has sent remembered from cycle to cycle.
CadenceNext ==
    \/ \E api \in CadenceSchedules : DispatchFetch("beat-1", api)
    \/ CadenceEntry("beat-1")
    \/ DispatchPersist("beat-1")
    \/ DispatchFinish("beat-1")
    \/ DispatchReturn("beat-1")
    \/ DispatchTickClock

\* The limiter under test is built with any max_calls, disabled ones included.
Init ==
    /\ now = 0
    /\ max_calls \in (-1)..MaxCalls
    /\ LimiterInit
    /\ redis = <<>>
    /\ RunInit
    /\ DueInit
    /\ DispatchInit

\* The runs and the dispatcher start on an empty Redis.
InitService ==
    /\ now = 0
    /\ max_calls = MaxCalls
    /\ LimiterInit
    /\ redis = <<>>
    /\ RunInit
    /\ DueInit
    /\ DispatchInit

SpecLimiter == Init /\ [][LimiterNext]_vars

\* The event loop runs every task that can run, asyncio.Lock hands the lock
\* to its waiters in the order they came, and time passes.
LimiterFairness ==
    /\ \A t \in Tasks : SF_vars(AcquireEnter(t))
    /\ \A t \in Tasks : WF_vars(AcquireCritical(t))
    /\ \A t \in Tasks : WF_vars(AcquireRetry(t))
    /\ WF_vars(LimiterTickClock)

\* The callers are numbered in the order in which they call acquire and the
\* key of the first call is named "default": tasks and keys are
\* interchangeable, so nothing but their names is fixed by this.
AcquireCallInOrder(t, k) ==
    /\ \A u \in 1..(t - 1) : tpc[u] # "idle"
    /\ t = 1 => k = "default"
    /\ AcquireCall(t, 1, k)

\* Finitely many calls on one limiter, with any key.
TerminateNext ==
    \/ \E t \in Tasks, k \in Keys : AcquireCallInOrder(t, k)
    \/ \E t \in Tasks : AcquireEnter(t)
    \/ \E t \in Tasks : AcquireCritical(t)
    \/ \E t \in Tasks : AcquireRetry(t)
    \/ LimiterTickClock

SpecTerminate == Init /\ [][TerminateNext]_vars /\ LimiterFairness

SpecThrottle == InitService /\ [][ThrottleNext]_vars

SpecRun == InitService /\ [][RunNext]_vars

SpecFault == InitService /\ [][FaultNext]_vars

SpecScrape == InitService /\ [][ScrapeNext]_vars

SpecDeduper == InitService /\ [][DeduperNext]_vars

SpecDue == InitService /\ [][DueNext]_vars

SpecDispatch == InitService /\ [][DispatchNext]_vars

SpecCrash == InitService /\ [][CrashNext]_vars

SpecRace == InitService /\ [][RaceNext]_vars

SpecCadence == InitService /\ [][CadenceNext]_vars

(***************************************************************************)
(* Views of the history of is_duplicate calls and of ingest_jobs calls.    *)
(***************************************************************************)
NChecks == Len(checks)
SameKey(i, j) == checks[i].key = checks[j].key
ChecksOf(r) == SelectSeq(checks, LAMBDA c : c.run = r)
CallsOf(r) == SelectSeq(ingestLog, LAMBDA c : c.run = r)
JobsOf(cs) == [i \in 1..Len(cs) |-> cs[i].job]
Fingerprints(cs) == [i \in 1..Len(cs) |-> cs[i].fingerprint]

(***************************************************************************)
(* C2: is_duplicate is one atomic set-if-absent: of the calls for one key  *)
(* that race while the key has no marker (no earlier call for it within    *)
(* the TTL), the first returns false and every other call made at that     *)
(* instant returns true.                                                   *)
(***************************************************************************)
NoMarkerBefore(i) ==
    \A j \in 1..(i - 1) : SameKey(i, j) => checks[i].t > checks[j].t + dedupe_ttl_seconds

C2_AtomicSetIfAbsent ==
    \A i \in 1..NChecks :
        NoMarkerBefore(i) =>
            /\ ~checks[i].dup
            /\ \A j \in (i + 1)..NChecks :
                   (SameKey(i, j) /\ checks[j].t = checks[i].t) => checks[j].dup

\* Two runs check the same fingerprint in the same instant on an empty store.
C2_Witness ==
    \E i, j \in 1..NChecks :
        /\ i < j /\ SameKey(i, j) /\ checks[i].run # checks[j].run
        /\ checks[i].t = checks[j].t
        /\ NoMarkerBefore(i) /\ ~checks[i].dup /\ checks[j].dup

(***************************************************************************)
(* C3: after a fingerprint is admitted as novel at t0, every check of it   *)
(* in (t0, t0+T) returns true, those checks leave the marker's expiry at   *)
(* t0+T, and the first check after t0+T returns false again and starts a   *)
(* new TTL.                                                                *)
(***************************************************************************)
LastNovel(i) ==
    /\ ~checks[i].dup
    /\ \A j \in (i + 1)..NChecks : SameKey(i, j) => checks[j].dup

C3_TtlWindow ==
    \A i \in 1..NChecks :
        ~checks[i].dup =>
            LET t0 == checks[i].t
                T == dedupe_ttl_seconds
            IN  /\ \A j \in (i + 1)..NChecks :
                       (SameKey(i, j) /\ checks[j].t > t0 /\ checks[j].t < t0 + T)
                           => checks[j].dup
                /\ \A j \in (i + 1)..NChecks :
                       ( /\ SameKey(i, j)
                         /\ checks[j].t > t0 + T
                         /\ \A k \in (i + 1)..(j - 1) :
                                SameKey(i, k) => checks[k].t <= t0 + T )
                           => ~checks[j].dup
                /\ (LastNovel(i) /\ now <= t0 + T) =>
                       /\ checks[i].key \in DOMAIN redis
                       /\ redis[checks[i].key].expires = t0 + T

\* Novel at t0, a duplicate inside the TTL, novel again after it.
C3_Witness ==
    \E i, j, k \in 1..NChecks :
        /\ i < j /\ j < k /\ SameKey(i, j) /\ SameKey(i, k)
        /\ ~checks[i].dup
        /\ checks[j].t > checks[i].t /\ checks[j].t < checks[i].t + dedupe_ttl_seconds
        /\ checks[j].dup
        /\ checks[k].t > checks[i].t + dedupe_ttl_seconds
        /\ ~checks[k].dup

(***************************************************************************)
(* C4: the items of a run are checked in yield order; the outgoing batch   *)
(* is the subsequence of the items whose fingerprint had no unexpired      *)
(* marker when they were checked, in yield order; processed counts the     *)
(* items yielded, dropped the rejected ones, sent is the batch length, and *)
(* a non-empty batch is what the run's one ingestion call carries.         *)
(***************************************************************************)
Started(r) == rpc[r] \in {"iterating", "closed", "done"}

FirstInRun(cs, i) == \A j \in 1..(i - 1) : cs[j].fingerprint # cs[i].fingerprint

C5_IngestOnlyNonEmpty ==
    \A r \in Runs :
        LET calls == CallsOf(r)
        IN  /\ Len(calls) <= 1
            /\ rpc[r] \in {"idle", "opening", "opened", "iterating", "closed"}
                   => calls = <<>>
            /\ \A n \in 1..Len(calls) :
                   /\ calls[n].jobs # <<>>
                   /\ calls[n].jobs = collected[r]
                   /\ calls[n].adapter = rslug[r]
                   /\ calls[n].run_id = rrunid[r]
            /\ rpc[r] = "done" =>
                   /\ (collected[r] # <<>>) <=> (Len(calls) = 1)
                   /\ (rresult[r][1].ingestion_response = <<>>) <=> (calls = <<>>)

\* A run whose every item was a duplicate returns without an ingestion call.
C5_Witness ==
    \E r \in Runs :
        /\ rpc[r] = "done"
        /\ processed[r] > 0 /\ dropped[r] = processed[r]
        /\ CallsOf(r) = <<>>
        /\ rresult[r][1].ingestion_response = <<>>
        /\ \E q \in Runs : q # r /\ Len(CallsOf(q)) = 1

(***************************************************************************)
(* C6.  is_due(last_dispatch_at, now) is true exactly when the entry is    *)
(* enabled and either no reference timestamp exists or now - reference >=  *)
(* interval_minutes * 60 seconds, the reference being the persisted        *)
(* last-dispatch timestamp if present and the entry's last_run_at          *)
(* otherwise.  So an enabled entry with neither timestamp is due at any    *)
(* now, and with interval 60 a reference 30 minutes old is not due, one 61 *)
(* minutes old is due and one exactly 60 minutes old is due.               *)
(***************************************************************************)
DueCalled == dueArgs # <<>>
DueReference ==
    IF dueArgs[1].last_dispatch_at # <<>> THEN dueArgs[1].last_dispatch_at
    ELSE dueArgs[1].entry.last_run_at
DueNow == IF dueArgs[1].now # <<>> THEN dueArgs[1].now[1] ELSE now
DueAge == DueNow - DueReference[1]

C6_DueExactly ==
    DueCalled =>
        /\ dueResult[1] =
              (/\ dueArgs[1].entry.enabled
               /\ \/ DueReference = <<>>
                  \/ DueAge >= dueArgs[1].entry.interval_minutes * 60)
        /\ (dueArgs[1].entry.enabled /\ dueArgs[1].entry.last_run_at = <<>>
               /\ dueArgs[1].last_dispatch_at = <<>>) => dueResult[1]
        /\ (dueArgs[1].entry.enabled /\ dueArgs[1].entry.interval_minutes = 60
               /\ DueReference # <<>>) =>
              /\ DueAge = 30 * 60 => ~dueResult[1]
              /\ DueAge = 61 * 60 => dueResult[1]
              /\ DueAge = 60 * 60 => dueResult[1]

\* The persisted timestamp is exactly 60 minutes old and wins over a last_run_at
\* of 59 seconds ago: the entry is due.
C6_Witness ==
    /\ DueCalled
    /\ dueArgs[1].entry.enabled
    /\ dueArgs[1].entry.interval_minutes = 60
    /\ dueArgs[1].last_dispatch_at = <<60>>
    /\ dueArgs[1].entry.last_run_at = <<3601>>
    /\ dueArgs[1].now = <<3660>>
    /\ dueResult = <<TRUE>>

(***************************************************************************)
(* C7.  An entry with enabled = false is never dispatched, whatever the    *)
(* persisted last-dispatch timestamp and last_run_at are: its record is    *)
(* dispatched = false with reason "not_due" and no run id, no task is      *)
(* submitted for it and its last-dispatch marker is not written.           *)
(***************************************************************************)
DisabledAt(d) == {i \in 1..Len(schedules[d]) : ~schedules[d][i].enabled}

C7_DisabledNeverDispatched ==
    \A d \in Dispatchers : \A i \in DisabledAt(d) :
        /\ i <= Len(details[d]) =>
              details[d][i] = [adapter |-> schedules[d][i].adapter, run_id |-> <<>>,
                               dispatched |-> FALSE, reason |-> <<"not_due">>]
        /\ \A k \in 1..Len(dsent[d]) : dsent[d][k].idx # i
        /\ \A k \in 1..Len(dwrites[d]) : dwrites[d][k].idx # i
        /\ ~(dpc[d] = "persist" /\ didx[d] = i)
        /\ summary[d] # <<>> => summary[d][1].details[i].dispatched = FALSE

\* A cycle is over in which a disabled entry with no timestamp of either kind
\* was skipped while an enabled entry was dispatched.
C7_Witness ==
    \E d \in Dispatchers :
        /\ dpc[d] = "done"
        /\ \E i \in DisabledAt(d) :
              /\ schedules[d][i].last_run_at = <<>>
              /\ dreads[d][i] = <<>>
              /\ details[d][i].reason = <<"not_due">>
        /\ \E j \in 1..Len(details[d]) : details[d][j].dispatched

(***************************************************************************)
(* C8.  When the fetch returns no entries the cycle evaluates exactly one  *)
(* default entry per registered adapter, each enabled and with the         *)
(* configured default interval, and on an empty store every one of them is *)
(* due and dispatched (evaluated = dispatched = number of registered       *)
(* adapters); when the fetch returns at least one entry no default entry   *)
(* is added.                                                               *)
(***************************************************************************)
InCycle(d) == dpc[d] # "idle"
StoreWasEmpty(d) == \A i \in 1..Len(dreads[d]) : dreads[d][i] = <<>>

C8_DefaultFallback ==
    \A d \in Dispatchers : InCycle(d) =>
        /\ fetched[d] # <<>> => schedules[d] = fetched[d]
        /\ fetched[d] = <<>> =>
              /\ Len(schedules[d]) = Cardinality(ADAPTER_REGISTRY)
              /\ \A a \in ADAPTER_REGISTRY :
                    \E i \in 1..Len(schedules[d]) : schedules[d][i].adapter = a
              /\ \A i \in 1..Len(schedules[d]) :
                    /\ schedules[d][i].adapter \in ADAPTER_REGISTRY
                    /\ schedules[d][i].enabled
                    /\ schedules[d][i].interval_minutes = default_scrape_interval_minutes
              /\ (summary[d] # <<>> /\ StoreWasEmpty(d)) =>
                    /\ summary[d][1].evaluated = Cardinality(ADAPTER_REGISTRY)
                    /\ summary[d][1].dispatched = Cardinality(ADAPTER_REGISTRY)
                    /\ \A i \in 1..Len(schedules[d]) :
                          summary[d][1].details[i].dispatched

\* A cycle whose fetch returned nothing is over, and the demo board's default
\* entry was dispatched on the empty store.
C8_Witness ==
    \E d \in Dispatchers :
        /\ dpc[d] = "done"
        /\ fetched[d] = <<>>
        /\ StoreWasEmpty(d)
        /\ Len(dsent[d]) = 1
        /\ dsent[d][1].adapter_name = DemoSlug
        /\ summary[d][1].dispatched = 1

(***************************************************************************)
(* C9: the deduper makes ingestion idempotent: two runs of one adapter     *)
(* never both have a fingerprint in their batch unless the two admissions  *)
(* are more than the dedupe TTL apart, under any interleaving.             *)
(***************************************************************************)
AdmittedOf(r) == SelectSeq(ChecksOf(r), LAMBDA c : ~c.dup)

C9_OneBatchPerFingerprint ==
    \A r, q \in Runs :
        (r # q /\ Started(r) /\ Started(q) /\ rslug[r] = rslug[q]) =>
            /\ Len(AdmittedOf(r)) = Len(collected[r])
            /\ \A i \in 1..Len(collected[r]) : \A j \in 1..Len(collected[q]) :
                   dedupe_key(collected[r][i]) = dedupe_key(collected[q][j]) =>
                       \/ AdmittedOf(r)[i].t > AdmittedOf(q)[j].t + dedupe_ttl_seconds
                       \/ AdmittedOf(q)[j].t > AdmittedOf(r)[i].t + dedupe_ttl_seconds

\* Two runs of the adapter overlap and both yield "a": one batch has it.
C9_Witness ==
    \E r, q \in Runs :
        /\ r # q /\ rpc[r] = "done" /\ rpc[q] = "done"
        /\ \E i \in 1..NChecks : \E j \in 1..NChecks : \E k \in 1..NChecks :
               /\ i < j /\ j < k
               /\ checks[i].run = r /\ checks[j].run = q /\ checks[k].run = r
               /\ SameKey(i, j) /\ ~checks[i].dup /\ checks[j].dup
        /\ Len(collected[q]) = 0 /\ Len(collected[r]) > 0

(***************************************************************************)
(* C10: a configuration error fails the run at once: with an unknown slug, *)
(* or an engine name Playwright does not have, run_adapter raises before   *)
(* any item is iterated: no dedupe marker written, no ingestion call, no   *)
(* result.                                                                 *)
(***************************************************************************)
NothingDone(r) ==
    /\ rpc[r] = "raised"
    /\ ChecksOf(r) = <<>>
    /\ processed[r] = 0
    /\ CallsOf(r) = <<>>
    /\ rresult[r] = <<>>
    /\ session[r] # "open"

C10_ConfigErrorFailsFast ==
    \A r \in Runs :
        /\ (rpc[r] # "idle" /\ rslug[r] = OtherSlug) =>
               (NothingDone(r) /\ rerror[r] = "ScraperException")
        /\ (rpc[r] \notin {"idle", "opening", "opened"} /\ rbrowser[r] = "netscape") =>
               (NothingDone(r) /\ rerror[r] = "ValueError")

\* One run failed on its slug, another on its engine, and Redis is untouched.
C10_Witness ==
    /\ \E r \in Runs : rerror[r] = "ScraperException"
    /\ \E r \in Runs : rerror[r] = "ValueError"
    /\ redis = <<>>

(***************************************************************************)
(* C11: a transport failure of the ingestion call propagates out of        *)
(* run_adapter unchanged and is not retried: a run makes at most one       *)
(* submit attempt; after a failed attempt the run has raised the client's  *)
(* error and returned no result, and what it leaves behind is the dedupe   *)
(* markers written while iterating.                                        *)
(***************************************************************************)
FailedCalls == {i \in 1..Len(ingestLog) : ~ingestLog[i].ok}
MarkersLeft(r) ==
    \A i \in 1..NChecks :
        (checks[i].run = r /\ ~checks[i].dup /\ now <= checks[i].t + dedupe_ttl_seconds)
            => Live(redis, checks[i].key, now)

C11_IngestFailurePropagates ==
    /\ \A r \in Runs : Len(CallsOf(r)) <= 1
    /\ \A i \in FailedCalls :
          LET r == ingestLog[i].run
          IN  /\ rpc[r] = "raised"
              /\ rerror[r] = "HTTPStatusError"
              /\ rresult[r] = <<>>
              /\ MarkersLeft(r)
    /\ \A key \in DOMAIN redis :
          \E i \in 1..NChecks : checks[i].key = key /\ ~checks[i].dup

\* A run whose one submit attempt failed: no result, its item's marker in place.
C11_Witness ==
    \E i \in FailedCalls :
        /\ rerror[ingestLog[i].run] = "HTTPStatusError"
        /\ Len(ingestLog[i].jobs) >= 1
        /\ \E j \in 1..NChecks :
              /\ checks[j].run = ingestLog[i].run
              /\ ~checks[j].dup
              /\ Live(redis, checks[j].key, now)

(***************************************************************************)
(* C12: a dispatch cycle that crashes at any point leaves every adapter it *)
(* had dispatched with a fresh last-dispatch timestamp, so that the cycle  *)
(* run again (before the adapter's interval has passed) does not dispatch  *)
(* that adapter a second time; and it has written the marker of no adapter *)
(* it found not due.                                                       *)
(***************************************************************************)
JustCrashed(d) == crashed[d] # <<>> /\ dpc[d] = "idle" /\ now = crashed[d][1].at
FreshMarker(a, t) ==
    /\ Live(redis, LastDispatchKey(a), now)
    /\ FromIsoFormat(redis[LastDispatchKey(a)].value) = t
Redispatched(d, s) ==
    \E k \in 1..Len(dsent[d]) :
        /\ dsent[d][k].adapter_name = s.adapter
        /\ schedules[d][dsent[d][k].idx].interval_minutes = s.interval_minutes
        /\ dsent[d][k].t < crashed[d][1].now + s.interval_minutes * 60

C12_CrashLeavesTimestamps ==
    \A d \in Dispatchers :
        /\ JustCrashed(d) =>
              \A s \in crashed[d][1].sent : FreshMarker(s.adapter, crashed[d][1].now)
        /\ (crashed[d] # <<>> /\ dpc[d] # "idle") =>
              \A s \in crashed[d][1].sent : ~Redispatched(d, s)
        /\ crashed[d] # <<>> =>
              crashed[d][1].written \subseteq
                  {LastDispatchKey(s.adapter) : s \in crashed[d][1].sent}

\* What holds of a crashed cycle: a marker was written only for an adapter the
\* cycle had sent a task for, and an adapter whose marker it wrote is not
\* dispatched by the cycle run again within the interval.
C12_PersistedNotRedispatched ==
    \A d \in Dispatchers :
        crashed[d] # <<>> =>
            /\ crashed[d][1].written \subseteq
                  {LastDispatchKey(s.adapter) : s \in crashed[d][1].sent}
            /\ dpc[d] # "idle" =>
                  \A s \in crashed[d][1].sent :
                      LastDispatchKey(s.adapter) \in crashed[d][1].written
                          => ~Redispatched(d, s)

\* The cycle crashed between send_task and redis.set: the task is out, no
\* marker is there, and the cycle run again has sent the adapter's task again.
C12_Witness ==
    \E d \in Dispatchers :
        /\ crashed[d] # <<>>
        /\ dpc[d] = "done"
        /\ \E s \in crashed[d][1].sent :
              /\ LastDispatchKey(s.adapter) \notin crashed[d][1].written
              /\ Redispatched(d, s)

(***************************************************************************)
(* C13: with max_calls zero or negative the limiter is disabled: every     *)
(* acquire(key) returns at once, never suspended, never holding the lock   *)
(* and recording no timestamp, however many calls interleave.              *)
(***************************************************************************)
Returned(t) == tpc[t] = "done"

C13_DisabledLimiter ==
    max_calls <= 0 =>
        /\ \A l \in Limiters : lock[l] = Unlocked
        /\ \A l \in Limiters, k \in Keys : events[l][k] = <<>>
        /\ \A t \in Tasks :
              /\ tpc[t] \in {"idle", "enter", "done"}
              /\ twake[t] = 0
              /\ tpc[t] = "enter" => ENABLED AcquireEnter(t)

\* max_calls = 0 and every task's acquire has returned, all for one key at one
\* instant.
C13_Witness ==
    /\ max_calls = 0
    /\ \A t \in Tasks : Returned(t) /\ tkey[t] = "default"
    /\ Len(grants[1]["default"]) = NumTasks
    /\ now = 0

(***************************************************************************)
(* C14: every dispatch summary has evaluated = the number of entries of    *)
(* the cycle, details = one record per entry in entry order, dispatched =  *)
(* the number of records with dispatched = true, and skipped = evaluated - *)
(* dispatched = the number of records with dispatched = false.             *)
(***************************************************************************)
RecordsWith(recs, flag) == {i \in 1..Len(recs) : recs[i].dispatched = flag}

C14_SummaryCounts ==
    \A d \in Dispatchers :
        summary[d] # <<>> =>
            LET sm == summary[d][1]
            IN  /\ sm.evaluated = Len(schedules[d])
                /\ Len(sm.details) = sm.evaluated
                /\ \A i \in 1..Len(sm.details) :
                      sm.details[i].adapter = schedules[d][i].adapter
                /\ sm.dispatched = Cardinality(RecordsWith(sm.details, TRUE))
                /\ sm.dispatched = Len(dsent[d])
                /\ sm.skipped = sm.evaluated - sm.dispatched
                /\ sm.skipped = Cardinality(RecordsWith(sm.details, FALSE))

\* A summary of two entries, the first skipped and the second dispatched.
C14_Witness ==
    \E d \in Dispatchers :
        /\ summary[d] # <<>>
        /\ summary[d][1].evaluated = 2
        /\ summary[d][1].dispatched = 1
        /\ summary[d][1].skipped = 1
        /\ ~summary[d][1].details[1].dispatched
        /\ summary[d][1].details[2].dispatched

(***************************************************************************)
(* C15: the rate bound is shared by concurrent runs of one adapter: the    *)
(* throttled actions of all the runs together number at most               *)
(* rate_limit_per_minute (max_calls) in any trailing window of 60 seconds. *)
(***************************************************************************)
ThrottledActions ==
    {<<l, i>> \in Limiters \X (1..NumTasks) : i <= Len(grants[l]["default"])}
ThrottledAt(a) == grants[a[1]]["default"][a[2]]
ThrottledInWindow(t) ==
    {a \in ThrottledActions : ThrottledAt(a) > t - period /\ ThrottledAt(a) <= t}

C15_SharedRateBound ==
    \A a \in ThrottledActions :
        Cardinality(ThrottledInWindow(ThrottledAt(a))) <= max_calls

\* Two runs at one instant: each has been granted max_calls throttled actions
\* by its own limiter, or as many as there are tasks to ask.
C15_Witness ==
    /\ Len(grants[1]["default"]) >= 1
    /\ Len(grants[2]["default"]) >= 1
    /\ Cardinality(ThrottledInWindow(now)) > max_calls

(***************************************************************************)
(* C16: for a due entry _handle_entry draws a fresh run id, submits        *)
(* exactly one task carrying the adapter and the run id to the scrape      *)
(* queue, and only after that writes scrape:last_dispatch:<adapter> with   *)
(* expiry interval_minutes * 60 seconds; the value written is the `now`    *)
(* captured once at the start of the cycle, the same for every entry       *)
(* dispatched in the cycle, and the record returned is dispatched = true   *)
(* with that run id.                                                       *)
(***************************************************************************)
SentFor(d, i) == {k \in 1..Len(dsent[d]) : dsent[d][k].idx = i}
WrittenFor(d, i) == {k \in 1..Len(dwrites[d]) : dwrites[d][k].idx = i}

C16_DispatchAction ==
    \A d \in Dispatchers :
        /\ \A k \in 1..Len(dsent[d]) :
              LET i == dsent[d][k].idx
              IN  /\ SentFor(d, i) = {k}
                  /\ dsent[d][k].task = "autohire.scrape.run"
                  /\ dsent[d][k].queue = "scrape"
                  /\ dsent[d][k].adapter_name = schedules[d][i].adapter
                  /\ \A j \in 1..Len(dsent[d]) :
                        j # k => dsent[d][j].run_id # dsent[d][k].run_id
                  /\ IF dpc[d] = "persist" /\ didx[d] = i
                     THEN WrittenFor(d, i) = {} /\ Len(details[d]) = i - 1
                     ELSE /\ Cardinality(WrittenFor(d, i)) = 1
                          /\ details[d][i] =
                                [adapter |-> schedules[d][i].adapter,
                                 run_id |-> <<dsent[d][k].run_id>>,
                                 dispatched |-> TRUE, reason |-> <<>>]
        /\ \A k \in 1..Len(dwrites[d]) :
              LET i == dwrites[d][k].idx
              IN  /\ SentFor(d, i) # {}
                  /\ dwrites[d][k].key = <<"scrape", "last_dispatch">> \o schedules[d][i].adapter
                  /\ dwrites[d][k].ex = schedules[d][i].interval_minutes * 60
                  /\ dwrites[d][k].value = IsoFormat(cycleNow[d])

\* A cycle that started at 0 has dispatched two entries at different clock
\* readings; both markers carry the cycle's timestamp.
C16_Witness ==
    \E d \in Dispatchers :
        /\ dpc[d] = "done"
        /\ Len(dwrites[d]) = 2
        /\ dsent[d][1].t # dsent[d][2].t
        /\ dwrites[d][1].value = dwrites[d][2].value
        /\ dsent[d][1].adapter_name # dsent[d][2].adapter_name

(***************************************************************************)
(* C17: a missing last-dispatch marker and "due".  As claimed: whenever an *)
(* enabled entry has no scrape:last_dispatch marker in the store, the      *)
(* cycle evaluates it as due and dispatches it (C17_MissingMarkerIsDue).   *)
(* What holds: an enabled entry with no marker in the store is dispatched  *)
(* exactly when it has no last_run_at or its last_run_at is at least       *)
(* interval_minutes * 60 seconds before the cycle's now; with a more       *)
(* recent last_run_at it is skipped as not_due; and a marker does not      *)
(* expire before interval_minutes * 60 seconds have passed since the       *)
(* timestamp it holds (C17_MissingMarkerFallsBack).                        *)
(***************************************************************************)
Handled(d) == 1..Len(dreads[d])
NoMarkerSeen(d) == {i \in Handled(d) : schedules[d][i].enabled /\ dreads[d][i] = <<>>}
RunLongAgo(d, i) ==
    \/ schedules[d][i].last_run_at = <<>>
    \/ cycleNow[d] - schedules[d][i].last_run_at[1] >= schedules[d][i].interval_minutes * 60

LastWrites(d) ==
    {k \in 1..Len(dwrites[d]) :
        \A j \in 1..Len(dwrites[d]) : dwrites[d][j].key = dwrites[d][k].key => j <= k}

Exited(r) == rpc[r] \in {"closed", "done", "raised"}

C18_SessionClosedOnEveryExit ==
    /\ \A r \in Runs :
          /\ session[r] = "none" <=> rpc[r] \in {"idle", "opening"}
          /\ session[r] = "open" <=> rpc[r] \in {"opened", "iterating"}
          /\ Exited(r) => session[r] = "closed"
    /\ \A i \in 1..Len(ingestLog) : session[ingestLog[i].run] = "closed"

\* One run left on an unsupported engine name, the other on a deduper error
\* after an item; both sessions are closed.
C18_Witness ==
    \E r, q \in Runs :
        /\ rerror[r] = "ValueError" /\ session[r] = "closed"
        /\ rerror[q] = "RedisError" /\ session[q] = "closed"
        /\ processed[q] = 2

(***************************************************************************)
(* C19: if the adapter raises while being iterated the run aborts: no      *)
(* further item is processed, no ingestion call is made for the items      *)
(* collected so far and no result is returned; the dedupe markers written  *)
(* for the items yielded before the error stay in the store and are seen   *)
(* by any later run at once.                                               *)
(***************************************************************************)
AdapterFailed(r) == rerror[r] = "AdapterError"

C19_AdapterErrorAborts ==
    \A r \in Runs :
        AdapterFailed(r) =>
            /\ rpc[r] = "raised"
            /\ processed[r] = Len(ChecksOf(r))
            /\ Len(collected[r]) = Len(SelectSeq(ChecksOf(r), LAMBDA c : ~c.dup))
            /\ CallsOf(r) = <<>>
            /\ rresult[r] = <<>>
            /\ MarkersLeft(r)
            /\ \A i \in 1..NChecks : \A j \in (i + 1)..NChecks :
                  ( /\ checks[i].run = r /\ ~checks[i].dup
                    /\ checks[j].run # r /\ SameKey(i, j)
                    /\ checks[j].t <= checks[i].t + dedupe_ttl_seconds )
                  => checks[j].dup

\* A run admitted "a" and then its adapter raised; another run, at the same
\* instant, had "a" rejected as a duplicate.
C19_Witness ==
    \E r, q \in Runs :
        /\ r # q
        /\ AdapterFailed(r)
        /\ Len(collected[r]) = 1
        /\ \E i \in 1..NChecks : \E j \in 1..NChecks :
              /\ i < j /\ SameKey(i, j)
              /\ checks[i].run = r /\ ~checks[i].dup
              /\ checks[j].run = q /\ checks[j].dup
              /\ checks[j].t = checks[i].t
        /\ rpc[q] = "done"
        /\ ingestLog = <<>>

(***************************************************************************)
(* C20: a blocked acquire does not busy-spin.  When it finds max_calls     *)
(* timestamps in the window it releases the lock and suspends for          *)
(* period - (now - oldest timestamp), between 0 and period, then repeats   *)
(* the evict-check-record sequence under the lock; after that wait the     *)
(* oldest timestamp it observed has left the window, so no retry ends in a *)
(* further zero-length wait (C20_NoZeroLengthRetry).                       *)
(***************************************************************************)
Sleeping(t) == tpc[t] = "sleeping"
StampsOf(t) == {events[tlim[t]][tkey[t]][i] : i \in 1..Len(events[tlim[t]][tkey[t]])}

\* What holds of every blocked acquire: the lock is released and the wait is
\* between 0 and period, counted from a moment not after now.
C20_BlockedAcquireSuspends ==
    \A t \in Tasks :
        Sleeping(t) =>
            /\ lock[tlim[t]] # t
            /\ tsleep[t] >= 0 /\ tsleep[t] <= period
            /\ twake[t] - tsleep[t] <= now
            /\ twake[t] = toldest[t][1] + period \/ tretried[t]

C20_NoZeroLengthRetry ==
    \A t \in Tasks :
        (Sleeping(t) /\ tretried[t]) =>
            /\ \A e \in StampsOf(t) : e > toldest[t][1]
            /\ tsleep[t] > 0

\* Two grants at 0 fill the window; the third task waits the full period,
\* wakes at 60 with nobody competing, finds the timestamp 0 still counted
\* and is sent into a wait of length zero.
C20_Witness ==
    \E t \in Tasks :
        /\ Sleeping(t) /\ tretried[t]
        /\ toldest[t] = <<0>>
        /\ now = period
        /\ tsleep[t] = 0
        /\ 0 \in StampsOf(t)
        /\ \A u \in Tasks \ {t} : tpc[u] = "done"

(***************************************************************************)
(* C21: within a run every page navigation the adapter issues is preceded  *)
(* by a completed throttle() of its own, a granted acquire on the run's    *)
(* limiter: the n-th navigation of a run goes out after at least n grants. *)
(***************************************************************************)
NavsOf(r, i) == {j \in 1..i : navs[j].run = r}

C21_NavigationsThrottled ==
    \A i \in 1..Len(navs) :
        navs[i].granted >= Cardinality(NavsOf(navs[i].run, i))

\* A run of the demo board is over: it navigated once, yielded both listings,
\* and its limiter was never asked.
C21_Witness ==
    \E r \in Runs :
        /\ rpc[r] = "done"
        /\ rresult[r][1].processed = Len(DemoListings)
        /\ Cardinality(NavsOf(r, Len(navs))) = 1
        /\ grants[r]["default"] = <<>>
        /\ events[r]["default"] = <<>>

(***************************************************************************)
(* C22: one dispatch cycle makes one dispatch decision per adapter: at     *)
(* most one task is submitted for an adapter in a cycle, also when the     *)
(* schedule lists the adapter in more than one entry; a later entry of an  *)
(* adapter already dispatched in the cycle is recorded as not due          *)
(* (C22_OneTaskPerAdapter).                                                *)
(***************************************************************************)
EarlierSent(d, i) ==
    {k \in 1..Len(dsent[d]) :
        dsent[d][k].idx < i /\ dsent[d][k].adapter_name = schedules[d][i].adapter}

C22_OneTaskPerAdapter ==
    \A d \in Dispatchers :
        /\ \A k, m \in 1..Len(dsent[d]) :
              k # m => dsent[d][k].adapter_name # dsent[d][m].adapter_name
        /\ \A i \in 1..Len(details[d]) :
              EarlierSent(d, i) # {} =>
                  details[d][i] = [adapter |-> schedules[d][i].adapter, run_id |-> <<>>,
                                   dispatched |-> FALSE, reason |-> <<"not_due">>]

\* What holds: the later entry is skipped whenever the marker the earlier
\* entry wrote is still in the store when the later entry is read.
C22_SkippedWhileMarked ==
    \A d \in Dispatchers : \A i \in Handled(d) :
        (EarlierSent(d, i) # {} /\ dreads[d][i] # <<>>) =>
            /\ SentFor(d, i) = {}
            /\ details[d][i].reason = <<"not_due">>

\* The schedule lists one adapter twice; the cycle is over and has sent two
\* tasks for it, the second after the first entry's marker had expired.
C22_Witness ==
    \E d \in Dispatchers :
        /\ dpc[d] = "done"
        /\ Len(schedules[d]) = 2
        /\ schedules[d][1].adapter = schedules[d][2].adapter
        /\ Len(dsent[d]) = 2
        /\ dreads[d][2] = <<>>
        /\ summary[d][1].dispatched = 2

(***************************************************************************)
(* C23: dispatch is at-least-once, not exactly-once.  The read of the      *)
(* marker and its write in _handle_entry are two steps: two cycles that    *)
(* run concurrently and both read the store before either writes both find *)
(* the adapter due, and each submits a task for it, the two tasks carrying *)
(* different run ids.                                                      *)
(***************************************************************************)
BothReadNothing(d, e, i, j) ==
    /\ d # e
    /\ i \in NoMarkerSeen(d) /\ RunLongAgo(d, i)
    /\ j \in NoMarkerSeen(e) /\ RunLongAgo(e, j)
    /\ schedules[d][i].adapter = schedules[e][j].adapter

C23_RaceSubmitsTwice ==
    \A d, e \in Dispatchers : \A i \in Handled(d), j \in Handled(e) :
        BothReadNothing(d, e, i, j) =>
            /\ Cardinality(SentFor(d, i)) = 1
            /\ Cardinality(SentFor(e, j)) = 1
            /\ \A k \in SentFor(d, i), m \in SentFor(e, j) :
                  /\ dsent[d][k].adapter_name = dsent[e][m].adapter_name
                  /\ dsent[d][k].run_id # dsent[e][m].run_id

\* Both dispatchers have read the empty store at the same instant and sent
\* the demo board's task; neither has written the marker yet.
C23_Witness ==
    /\ \A d \in Dispatchers :
          /\ dpc[d] = "persist"
          /\ schedules[d][1].adapter = DemoSlug
          /\ Len(dsent[d]) = 1
          /\ dsent[d][1].t = 0
    /\ redis = <<>>
    /\ BothReadNothing("beat-1", "beat-2", 1, 1)

(***************************************************************************)
(* Views of the history of deduper calls.                                  *)
(***************************************************************************)
NOps == Len(dedupeLog)
IsCheck(i) == dedupeLog[i].op = "is_duplicate"
IsReset(i) == dedupeLog[i].op = "reset"
SameMarker(i, j) == dedupeLog[i].key = dedupeLog[j].key
\* The next call after i that is made on the key of call i.
NextOn(i, j) ==
    /\ i < j /\ SameMarker(i, j)
    /\ \A k \in (i + 1)..(j - 1) : ~SameMarker(i, k)

(***************************************************************************)
(* C24: reset(F) never changes membership.  When a marker for F exists its *)
(* expiry becomes now + ttl_seconds and is_duplicate(F) keeps returning    *)
(* true (now until the new expiry); when no marker for F exists reset      *)
(* creates none, and the next is_duplicate(F) still returns false.         *)
(***************************************************************************)
C24_ResetKeepsMembership ==
    \A i \in 1..NOps :
        IsReset(i) =>
            /\ dedupeLog[i].before # <<>> =>
                  dedupeLog[i].after = <<dedupeLog[i].t + dedupe_ttl_seconds>>
            /\ dedupeLog[i].before = <<>> => dedupeLog[i].after = <<>>
            /\ \A j \in (i + 1)..NOps :
                  (NextOn(i, j) /\ IsCheck(j)) =>
                      /\ (dedupeLog[i].before # <<>>
                            /\ dedupeLog[j].t <= dedupeLog[i].t + dedupe_ttl_seconds)
                         => dedupeLog[j].result = <<TRUE>>
                      /\ dedupeLog[i].before = <<>> => dedupeLog[j].result = <<FALSE>>

\* A marker set at 0 is reset before it expires; a check made after its first
\* expiry time has passed still finds it.
C24_Witness ==
    /\ NOps = 3
    /\ IsCheck(1) /\ dedupeLog[1].t = 0 /\ dedupeLog[1].result = <<FALSE>>
    /\ IsReset(2) /\ SameMarker(1, 2) /\ dedupeLog[2].t > 0
    /\ dedupeLog[2].before = <<dedupe_ttl_seconds>>
    /\ IsCheck(3) /\ SameMarker(1, 3) /\ dedupeLog[3].t > dedupe_ttl_seconds
    /\ dedupeLog[3].result = <<TRUE>>

(***************************************************************************)
(* C25: dedupe memory is scoped to one adapter.  For two distinct slugs A  *)
(* and B and any fingerprint F the marker of A for F and the marker of B   *)
(* for F are different keys; is_duplicate(F) on B's deduper returns true   *)
(* only for a live marker under B's own key, never because of A's marker   *)
(* for F; and B's calls leave A's marker as A's last call left it.         *)
(***************************************************************************)
\* Call i set or refreshed the marker of its key, and no later call did.
LastTouch(i) ==
    /\ dedupeLog[i].after # <<>>
    /\ dedupeLog[i].after # dedupeLog[i].before
    /\ \A j \in (i + 1)..NOps :
          SameMarker(i, j) => dedupeLog[j].after = dedupeLog[j].before

C25_ScopedToAdapter ==
    /\ \A i, j \in 1..NOps :
          (dedupeLog[i].slug # dedupeLog[j].slug
              /\ dedupeLog[i].fingerprint = dedupeLog[j].fingerprint)
          => ~SameMarker(i, j)
    /\ \A j \in 1..NOps :
          (IsCheck(j) /\ dedupeLog[j].result = <<TRUE>>) =>
              \E i \in 1..(j - 1) :
                  /\ SameMarker(i, j)
                  /\ dedupeLog[i].after # <<>>
                  /\ dedupeLog[j].t <= dedupeLog[i].after[1]
                  /\ ~(dedupeLog[i].slug # dedupeLog[j].slug
                          /\ dedupeLog[i].fingerprint = dedupeLog[j].fingerprint)
    /\ \A i \in 1..NOps :
          (LastTouch(i) /\ now <= dedupeLog[i].after[1]) =>
              /\ dedupeLog[i].key \in DOMAIN redis
              /\ redis[dedupeLog[i].key] = [value |-> "1", expires |-> dedupeLog[i].after[1]]

\* A marks "a" at 0, B checks "a" later and is told it is new, A checks "a"
\* again and is told it is known: two markers with two expiries.
C25_Witness ==
    /\ NOps = 3
    /\ IsCheck(1) /\ IsCheck(2) /\ IsCheck(3)
    /\ dedupeLog[1].slug # dedupeLog[2].slug /\ dedupeLog[3].slug = dedupeLog[1].slug
    /\ dedupeLog[1].fingerprint = <<"a">> /\ dedupeLog[2].fingerprint = <<"a">>
    /\ dedupeLog[3].fingerprint = <<"a">>
    /\ dedupeLog[1].t = 0 /\ dedupeLog[2].t > 0
    /\ dedupeLog[1].result = <<FALSE>>
    /\ dedupeLog[2].result = <<FALSE>>
    /\ dedupeLog[3].result = <<TRUE>>
    /\ redis[dedupeLog[1].key].expires # redis[dedupeLog[2].key].expires

(***************************************************************************)
(* C26: every ScrapeRunResult returned by run_adapter has processed = sent *)
(* + dropped, and during the iteration, each time the loop has dealt with  *)
(* an item, processed = length of the collected batch + dropped.  (An item *)
(* is counted in processed when it is yielded and in one of the other two  *)
(* when is_duplicate has answered; a run whose is_duplicate raised is left *)
(* with the item counted once and returns nothing.)                        *)
(***************************************************************************)
Balanced(r) == processed[r] = Len(collected[r]) + dropped[r]

IsSuffix(a, b) ==
    /\ Len(a) <= Len(b)
    /\ \A i \in 1..Len(a) : a[i] = b[Len(b) - Len(a) + i]
ReturnedFor(l, k) == {t \in Tasks : Returned(t) /\ tlim[t] = l /\ tkey[t] = k}

HistoryWellFormed ==
    \A l \in Limiters, k \in Keys :
        /\ Len(events[l][k]) <= max_calls
        /\ \A i, j \in 1..Len(events[l][k]) :
              i <= j => events[l][k][i] <= events[l][k][j]
        /\ IsSuffix(events[l][k], grants[l][k])
        /\ Len(grants[l][k]) = Cardinality(ReturnedFor(l, k))

\* A step that changes the history of key k of limiter l is the critical
\* section of an acquire(k) on l; it removes from the front only, and adds one
\* timestamp exactly when the call returns.
HistoryStep ==
    \A l \in Limiters, k \in Keys :
        events'[l][k] # events[l][k] =>
            \E t \in Tasks :
                /\ tpc[t] = "locked" /\ tlim[t] = l /\ tkey[t] = k
                /\ tpc'[t] \in {"done", "sleeping"}
                /\ tpc'[t] = "sleeping" => IsSuffix(events'[l][k], events[l][k])
                /\ tpc'[t] = "done" =>
                      /\ events'[l][k] # <<>>
                      /\ events'[l][k][Len(events'[l][k])] = now
                      /\ IsSuffix(SubSeq(events'[l][k], 1, Len(events'[l][k]) - 1),
                                  events[l][k])

C27_HistoryInvariant ==
    /\ [](max_calls > 0 => HistoryWellFormed)
    /\ [][max_calls > 0 => HistoryStep]_vars

\* max_calls = 1: "x" was granted at 0 and, after an eviction, again later;
\* the timestamp of "default", as old as the evicted one, is still in place.
C27_Witness ==
    /\ max_calls = 1
    /\ Len(grants[1]["x"]) = 2
    /\ grants[1]["x"][1] = 0
    /\ events[1]["x"] = <<grants[1]["x"][2]>>
    /\ events[1]["default"] = <<0>>
    /\ now > period

(***************************************************************************)
(* C28: acquire is deadlock-free and terminates.  The lock is held only    *)
(* inside the critical section, never by a caller suspended in its wait;   *)
(* and with max_calls > 0, the calls being finitely many, every call that  *)
(* has started returns, unless the clock of the model has stopped while    *)
(* the call waits for a time that lies beyond it.                          *)
(***************************************************************************)
LockOnlyInside ==
    \A l \in Limiters :
        lock[l] # Unlocked => (tpc[lock[l]] = "locked" /\ tlim[lock[l]] = l)
InAcquire(t) == tpc[t] \in {"enter", "locked", "sleeping"}
ClockStopped == now + LimiterTick > LimiterHorizon
\* The call sleeps and no reading the clock can still take opens the window:
\* the oldest timestamp it waits for is period old or less.
OutOfTime(t) ==
    /\ ClockStopped
    /\ Sleeping(t)
    /\ events[tlim[t]][tkey[t]] # <<>>
    /\ now - Head(events[tlim[t]][tkey[t]]) <= period

Consecutive(i, j) ==
    /\ i < j
    /\ dhistory[i].adapter = dhistory[j].adapter
    /\ dhistory[i].interval_minutes = dhistory[j].interval_minutes
    /\ \A k \in (i + 1)..(j - 1) : dhistory[k].adapter # dhistory[i].adapter
IntervalOf(j) == dhistory[j].interval_minutes * 60
MarkerYoung(j) ==
    /\ dhistory[j].read # <<>>
    /\ dhistory[j].now - FromIsoFormat(dhistory[j].read[1]) < IntervalOf(j)

C29_CycleTimestampsApart ==
    /\ \A i, j \in 1..Len(dhistory) :
          Consecutive(i, j) => dhistory[j].now - dhistory[i].now >= IntervalOf(j)
    /\ \A j \in 1..Len(dhistory) : ~MarkerYoung(j)

C29_CadenceKept ==
    /\ \A i, j \in 1..Len(dhistory) :
          Consecutive(i, j) =>
              IF dhistory[j].read # <<>>
              THEN /\ FromIsoFormat(dhistory[j].read[1]) = dhistory[i].now
                   /\ dhistory[j].now - dhistory[i].now >= IntervalOf(j)
              ELSE dhistory[j].t - dhistory[i].t > IntervalOf(j)
    /\ \A j \in 1..Len(dhistory) : ~MarkerYoung(j)

\* The demo board, every minute: a second cycle captured its now at 0 as the
\* first did, read the store after the marker had expired, and dispatched.
C29_Witness ==
    /\ Len(dhistory) >= 2
    /\ Consecutive(1, 2)
    /\ dhistory[1].adapter = DemoSlug /\ dhistory[1].interval_minutes = 1
    /\ dhistory[1].now = 0 /\ dhistory[1].t = 0
    /\ dhistory[2].now = 0 /\ dhistory[2].t > 60
    /\ dhistory[2].read = <<>>
    /\ dpc["beat-1"] = "done"

(***************************************************************************)
(* C30: dedupe markers are written before ingestion and are not rolled     *)
(* back.  When a run's ingestion call fails, or the run aborts after       *)
(* collecting items, the fingerprints of its unsent batch stay marked with *)
(* the expiry they were given; every check of them by another run of the   *)
(* adapter until then answers "duplicate", so that run counts the items as *)
(* dropped and does not put them in its batch.                             *)
(***************************************************************************)
Aborted(r) == rpc[r] = "raised" /\ rerror[r] \in {"HTTPStatusError", "AdapterError"}
Unsent(r) == {i \in 1..NChecks : checks[i].run = r /\ ~checks[i].dup}
RejectedOf(q) == SelectSeq(ChecksOf(q), LAMBDA c : c.dup)

C30_UnsentStayMarked ==
    \A r \in Runs : Aborted(r) =>
        /\ Len(collected[r]) = Cardinality(Unsent(r))
        /\ \A c \in 1..Len(ingestLog) : ingestLog[c].run = r => ~ingestLog[c].ok
        /\ \A i \in Unsent(r) :
              /\ now <= checks[i].t + dedupe_ttl_seconds =>
                    /\ Live(redis, checks[i].key, now)
                    /\ redis[checks[i].key].expires = checks[i].t + dedupe_ttl_seconds
              /\ \A j \in (i + 1)..NChecks :
                    (SameKey(i, j) /\ checks[j].t <= checks[i].t + dedupe_ttl_seconds)
                        => checks[j].dup
        /\ \A q \in Runs \ {r} : Started(q) =>
              /\ dropped[q] = Len(RejectedOf(q))
              /\ Len(collected[q]) = Len(AdmittedOf(q))
              /\ \A c \in 1..Len(CallsOf(q)) : CallsOf(q)[c].jobs = collected[q]

\* The ingestion call of one run failed with "a" in its batch; a later run of
\* the adapter, still within the TTL, yielded "a", dropped it and returned
\* without an ingestion call.
C30_Witness ==
    \E r, q \in Runs :
        /\ r # q
        /\ rerror[r] = "HTTPStatusError"
        /\ rpc[q] = "done"
        /\ \E i \in Unsent(r) : \E j \in (i + 1)..NChecks :
              /\ checks[j].run = q /\ SameKey(i, j)
              /\ checks[j].t > checks[i].t
              /\ checks[j].dup
        /\ rresult[q][1].processed = 1 /\ rresult[q][1].dropped = 1
        /\ CallsOf(q) = <<>>

(***************************************************************************)
(* C1: with max_calls > 0, for every key the acquire(key) calls that have  *)
(* returned number at most max_calls in any trailing window of `period`    *)
(* seconds, so the grant that follows max_calls earlier grants of the key  *)
(* comes at least `period` seconds after the first of them (max_calls = 2: *)
(* the third grant is at least 60 s after the first).                      *)
(***************************************************************************)
GrantsInWindow(l, k, i) ==
    {j \in 1..i : grants[l][k][j] > grants[l][k][i] - period}

C1_RateBound ==
    max_calls > 0 =>
        \A l \in Limiters, k \in Keys : \A i \in 1..Len(grants[l][k]) :
            /\ Cardinality(GrantsInWindow(l, k, i)) <= max_calls
            /\ i > max_calls => grants[l][k][i] - grants[l][k][i - max_calls] >= period

\* Scenario E: two grants of "x" at t = 0, a third one after the window.
C1_Witness ==
    /\ max_calls = 2
    /\ Len(grants[1]["x"]) = 3
    /\ grants[1]["x"][1] = 0 /\ grants[1]["x"][2] = 0
    /\ grants[1]["x"][3] >= period

====
